---- MODULE Spec2Model ----
(***************************************************************************)
(* A model of the cryptodd_arrays Python client: the chunk store Writer    *)
(* and Reader (file.py), the BufferedAutoChunker and GroupedWriter         *)
(* (stream/writers.py) and the GroupedReader (stream/readers.py).          *)
(*                                                                         *)
(* The storage engine (the compiled extension behind LowLevelWrapper) is   *)
(* not part of the Python sources; its StoreChunk / LoadChunks / Inspect   *)
(* operations are modelled from the documented protocol (Engine...).       *)
(*                                                                         *)
(* Arrays are one-dimensional: a record [dtype, data] whose data is the    *)
(* sequence of its rows.  Every row handed to a writer carries a fresh     *)
(* number, so that a dropped, duplicated or reordered row is visible.      *)
(***************************************************************************)
EXTENDS Integers, Sequences, FiniteSets, TLC

VARIABLES
    store,      \* engine: the chunks persisted in the primary store, in index order
    closed,     \* LowLevelWrapper._closed of the primary handle
    faults,     \* number of engine failures the scenario may inject
    failures,   \* number of engine failures injected so far
    nextVal,    \* next fresh row number handed out to an appended array
    phase,      \* "open" | "exited_ok" | "exited_err": the writer scope (with-block)
    result,     \* outcome of the last operation
    bac,        \* BufferedAutoChunker instance state
    gw,         \* GroupedWriter instance state
    rd,         \* Reader instance state (the cached inspection)
    gr,         \* GroupedReader instance state
    gen,        \* the generator returned by the last GroupedReader slice
    passes,     \* history: what each complete iteration of that generator yielded
    appended,   \* history: the arrays (or groups) accepted into the writer's buffers
    wrote,      \* history: chunk indices written by the BufferedAutoChunker, in write order
    flushes,    \* history: per GroupedWriter flush that reached the engine, what it wrote
    probes,     \* history: the calibration probes run, one record per probe store opened
    inspected   \* history: the results of the Inspect operations that succeeded for rd

vars == <<store, closed, faults, failures, nextVal, phase, result, bac, gw, rd, gr, gen, passes,
          appended, wrote, flushes, probes, inspected>>

grVars == <<gr, gen, passes>>

-----------------------------------------------------------------------------
(* Bounds of the model *)

MaxAppends == 3
MaxFailures == 1
MaxChunks == 3
MaxNames == 3
MaxPasses == 2
MaxRank == 4
MaxProbes == 2

-----------------------------------------------------------------------------
(* Arrays (numpy) *)

None == "None"

Dtypes == {"INT64", "FLOAT32"}

\* numpy itemsize of the element types used in the model
ItemSize(dtype) ==
    CASE dtype = "INT64" -> 8
      [] dtype = "FLOAT32" -> 4
      [] dtype = "FLOAT64" -> 8
      [] OTHER -> 1

\* ndarray.nbytes
nbytes(arr) == Len(arr.data) * ItemSize(arr.dtype)

\* ndarray.shape[0]
rows(arr) == Len(arr.data)

\* an array of n rows numbered from, from+1, ...
MkArray(dtype, from, n) == [dtype |-> dtype, data |-> [i \in 1..n |-> from + i - 1]]

\* data.ndim: the arrays of the model are one-dimensional unless they carry
\* a rank; an array of rank k has shape (rows, 1, ..., 1)
Rank(arr) == IF "ndim" \in DOMAIN arr THEN arr.ndim ELSE 1

\* an array of the rank of arr with the given element type and rows
ArrayLike(arr, dtype, data) ==
    IF "ndim" \in DOMAIN arr
    THEN [dtype |-> dtype, data |-> data, ndim |-> arr.ndim]
    ELSE [dtype |-> dtype, data |-> data]

\* an array of shape (n, 1, ..., 1) and rank ndim
MkArrayOfRank(dtype, from, n, ndim) ==
    [dtype |-> dtype, data |-> [i \in 1..n |-> from + i - 1], ndim |-> ndim]

RECURSIVE ConcatData(_)
ConcatData(arrs) ==
    IF arrs = <<>> THEN <<>> ELSE Head(arrs).data \o ConcatData(Tail(arrs))

\* numpy type promotion over the element types of the model
PromoteDtype(arrs) ==
    IF \A i \in 1..Len(arrs) : arrs[i].dtype = arrs[1].dtype
    THEN arrs[1].dtype
    ELSE "FLOAT64"

concatenate_First(arrs) == arrs[1]

\* np.concatenate, along the first axis, of a non-empty list of arrays of
\* one rank
concatenate(arrs) == ArrayLike(arrs[1], PromoteDtype(arrs), ConcatData(arrs))

-----------------------------------------------------------------------------
(* Codec Advisor *)

\* The error a class pattern with a positional sub-pattern raises when the
\* class has no __match_args__: "dtype() accepts 0 positional sub-patterns
\* (1 given)".
ClassPatternError == "TypeError:class_pattern"

Raises(codec) == codec = ClassPatternError

\* the class pattern np.dtype('<name>') applied to an array's dtype.  The
\* subject is an instance of np.dtype, so the isinstance test passes, and
\* np.dtype defines no __match_args__: the positional sub-pattern raises
\* before the name is compared.
dtype_pattern(dtype, name) == ClassPatternError

\* codec_selector.recommend_codec on (data.ndim, data.dtype): the codec, or
\* the error raised.  Each case is a sequence pattern (rank literal, class
\* pattern); the sub-patterns are tried left to right, and the first case
\* whose rank literal matches evaluates its class pattern.
recommend(ndim, dtype) ==
    CASE ndim = 3 -> dtype_pattern(dtype, "float32")
      [] ndim = 2 -> dtype_pattern(dtype, "float32")
      [] ndim = 1 -> dtype_pattern(dtype, "float32")
      [] OTHER -> "ZSTD_COMPRESSED"

\* recommend_codec on an array of the model
recommend_codec(arr) == recommend(Rank(arr), arr.dtype)

-----------------------------------------------------------------------------
(* Engine (modelled from the protocol) *)

\* StoreChunk: the chunk gets the next dense 0-based index
EngineStoreChunk(st, arr, codec) ==
    Append(st, [index |-> Len(st), dtype |-> arr.dtype, data |-> arr.data, codec |-> codec])

-----------------------------------------------------------------------------
(* Writer (file.py) behind the LowLevelWrapper (lowlevel.py) *)

SupportedDtypes ==
    {"FLOAT16", "FLOAT32", "FLOAT64", "INT8", "UINT8", "INT16", "UINT16",
     "INT32", "UINT32", "INT64", "UINT64"}

\* arr.flags['C_CONTIGUOUS']: arrays are C-contiguous unless built otherwise
IsCContiguous(arr) == IF "c_contiguous" \in DOMAIN arr THEN arr.c_contiguous ELSE TRUE

validate_array_for_writing_NoCheck(arr) == None

\* numpy_utils.validate_array_for_writing: None, or the error it raises
validate_array_for_writing(arr) ==
    IF arr.dtype \notin SupportedDtypes THEN "TypeError"
    ELSE IF ~IsCContiguous(arr) THEN "ValueError:not_contiguous"
    ELSE None

\* LowLevelWrapper.execute.  fail: the engine rejects the operation.
\* engine: the number of operations handed to the engine.
execute(isClosed, fail) ==
    IF isClosed THEN [err |-> "ValueError", engine |-> 0]
    ELSE IF fail THEN [err |-> "CddOperationError", engine |-> 1]
    ELSE [err |-> None, engine |-> 1]

append_chunk_IndexFromOne(st, isClosed, arr, codec, fail) ==
    IF validate_array_for_writing(arr) # None
    THEN [err |-> validate_array_for_writing(arr), store |-> st, index |-> -1, engine |-> 0]
    ELSE IF execute(isClosed, fail).err # None
    THEN [err |-> execute(isClosed, fail).err, store |-> st, index |-> -1,
          engine |-> execute(isClosed, fail).engine]
    ELSE [err |-> None, store |-> EngineStoreChunk(st, arr, codec), index |-> Len(st) + 1,
          engine |-> 1]

\* Writer.append_chunk through LowLevelWrapper.execute.  fail: the engine
\* rejects the StoreChunk operation.
append_chunk(st, isClosed, arr, codec, fail) ==
    IF validate_array_for_writing(arr) # None
    THEN [err |-> validate_array_for_writing(arr), store |-> st, index |-> -1, engine |-> 0]
    ELSE LET x == execute(isClosed, fail)
         IN IF x.err # None
            THEN [err |-> x.err, store |-> st, index |-> -1, engine |-> x.engine]
            ELSE [err |-> None, store |-> EngineStoreChunk(st, arr, codec), index |-> Len(st),
                  engine |-> x.engine]

\* Writer.append: validation, the Advisor's codec, then append_chunk
writer_append(st, isClosed, arr, fail) ==
    IF validate_array_for_writing(arr) # None
    THEN [err |-> validate_array_for_writing(arr), store |-> st, index |-> -1, engine |-> 0]
    ELSE IF Raises(recommend_codec(arr))
    THEN [err |-> recommend_codec(arr), store |-> st, index |-> -1, engine |-> 0]
    ELSE append_chunk(st, isClosed, arr, recommend_codec(arr), fail)

\* Writer.flush: the Flush operation
writer_flush(isClosed, fail) == execute(isClosed, fail)

\* LowLevelWrapper.close: releases the handle unless already closed
lowlevel_close(isClosed) == TRUE

\* Writer.close: self.flush(), then self._wrapper.close()
writer_close(isClosed, fail) ==
    LET f == writer_flush(isClosed, fail)
    IN IF f.err # None
       THEN [err |-> f.err, closed |-> isClosed, engine |-> f.engine]
       ELSE [err |-> None, closed |-> lowlevel_close(isClosed), engine |-> f.engine]

-----------------------------------------------------------------------------
(* Compression ratios are exact fractions <<numerator, denominator>> *)

Min(a, b) == IF a <= b THEN a ELSE b
Max(a, b) == IF a >= b THEN a ELSE b

\* max(r1, r2) of two fractions
MaxRatio(r1, r2) == IF r1[1] * r2[2] >= r2[1] * r1[2] THEN r1 ELSE r2

RECURSIVE GCD(_, _)
GCD(a, b) == IF b = 0 THEN a ELSE GCD(b, a % b)

\* floor(t / r) of the exact quotient
ExactFloor(t, r) == (t * r[2]) \div r[1]

\* Python divides in IEEE 754 double precision.  These are the <<t, p, q>>,
\* p/q in lowest terms, t <= 16, p <= 48, q <= 56, for which the double
\* quotient t / (p / q) is smaller than the integer t * q / p it equals in
\* exact arithmetic, so that int() of it is one less; for every other t, p, q
\* of that range int(t / (p / q)) is the exact floor.
DoubleQuotientShort ==
    {<<5, 5, 29>>, <<5, 5, 53>>, <<7, 7, 25>>, <<7, 7, 50>>, <<7, 7, 51>>, <<9, 9, 7>>,
     <<9, 9, 14>>, <<9, 9, 28>>, <<9, 9, 31>>, <<9, 9, 56>>, <<10, 5, 29>>, <<10, 5, 53>>,
     <<10, 10, 29>>, <<10, 10, 53>>, <<14, 7, 25>>, <<14, 7, 50>>, <<14, 7, 51>>,
     <<14, 14, 25>>, <<14, 14, 51>>, <<15, 15, 29>>}

\* int(t / r) for a positive ratio r = r[1] / r[2], as Python computes it
IntDivRatio(t, r) ==
    LET g == GCD(r[1], r[2])
        exact == (t * r[2]) \div r[1]
    IN IF <<t, r[1] \div g, r[2] \div g>> \in DoubleQuotientShort THEN exact - 1 ELSE exact

SampleBytes == 524288

\* Codec.RAW is IntEnum member 0: `codec or default` takes the default for it
Falsy(codec) == codec = None \/ codec = "RAW"

-----------------------------------------------------------------------------
(* BufferedAutoChunker (stream/writers.py) *)

\* BufferedAutoChunker.__init__
BufferedAutoChunker(target_chunk_bytes, codec, min_compression_ratio, max_buffer_multiplier) ==
    LET max_buffer_bytes == target_chunk_bytes * max_buffer_multiplier
        initial_target == IntDivRatio(target_chunk_bytes, min_compression_ratio)
    IN [ target_chunk_bytes |-> target_chunk_bytes,
         codec |-> codec,
         min_compression_ratio |-> min_compression_ratio,
         max_buffer_bytes |-> max_buffer_bytes,
         buffer |-> <<>>,
         buffered_bytes |-> 0,
         compression_ratio |-> None,
         uncompressed_chunk_size |-> Min(initial_target, max_buffer_bytes) ]

\* the leading rows of data that the probe samples
ProbeSample(data) ==
    LET bytes_per_row == nbytes(data) \div rows(data)
        num_rows_to_sample == Max(1, SampleBytes \div bytes_per_row)
    IN ArrayLike(data, data.dtype, SubSeq(data.data, 1, Min(num_rows_to_sample, rows(data))))

\* cryptodd_arrays.open(path, mode): the backend configuration handed to the
\* engine for mode 'r', 'w' or 'a'
cdd_open(path, mode) ==
    [type |-> "File",
     mode |-> IF mode = "r" THEN "Read"
              ELSE IF mode = "w" THEN "WriteTruncate" ELSE "WriteAppend",
     path |-> path]

\* append reaches the with-statement of _estimate_compression_ratio: the
\* primary writer is open, the codec is settled without error, the writer is
\* not calibrated and data has rows
bac_probes(b, isClosed, data) ==
    LET asks == b.buffer = <<>> /\ b.codec = None
        codec == IF asks THEN recommend_codec(data) ELSE b.codec
    IN /\ ~isClosed
       /\ ~(asks /\ Raises(codec))
       /\ b.compression_ratio = None
       /\ rows(data) # 0
       /\ ~(Falsy(codec) /\ Raises(recommend_codec(ProbeSample(data))))

\* codec_to_use = self.codec or codec_selector.recommend_codec(sample)
bac_probe_codec(b, sample) == IF Falsy(b.codec) THEN recommend_codec(sample) ELSE b.codec

bac_probe_OnPrimary(st, sample, codec_to_use, wfail, cfail) ==
    [config |-> cdd_open(None, "w"),
     err |-> IF writer_close(FALSE, cfail).err # None THEN writer_close(FALSE, cfail).err
             ELSE append_chunk(st, FALSE, sample, codec_to_use, wfail).err,
     stored |-> 0,
     closed |-> writer_close(FALSE, cfail).closed,
     before |-> st,
     primary |-> append_chunk(st, FALSE, sample, codec_to_use, wfail).store]

\* the with-statement of _estimate_compression_ratio,
\*   with cdd_open(None, 'w') as mem_writer:
\*       result = mem_writer.append_chunk(sample, codec_to_use, zstd_level=-2)
\* on a fresh probe store, beside the primary store st.  wfail / cfail: the
\* probe store's engine rejects the StoreChunk / the Flush that Writer.close
\* sends when the with-statement is left.  closed: the probe handle has been
\* released.  primary: the primary store when the with-statement is left.
bac_probe(st, sample, codec_to_use, wfail, cfail) ==
    LET w == append_chunk(<<>>, FALSE, sample, codec_to_use, wfail)
        c == writer_close(FALSE, cfail)
    IN [config |-> cdd_open(None, "w"),
        err |-> IF c.err # None THEN c.err ELSE w.err,
        stored |-> Len(w.store),
        closed |-> c.closed,
        before |-> st,
        primary |-> st]

\* BufferedAutoChunker._estimate_compression_ratio once the probe store has
\* reported compressed_size for the sample (original_size is the sample's nbytes)
bac_estimate(b, data, compressed_size) ==
    IF b.compression_ratio # None \/ rows(data) = 0 THEN b
    ELSE LET original_size == nbytes(ProbeSample(data))
             ratio == IF original_size > 0
                      THEN MaxRatio(b.min_compression_ratio, <<compressed_size, original_size>>)
                      ELSE <<1, 2>>
             uncompressed_target == IntDivRatio(b.target_chunk_bytes, ratio)
         IN [b EXCEPT !.compression_ratio = ratio,
                      !.uncompressed_chunk_size = Min(uncompressed_target, b.max_buffer_bytes)]

bac_flush_KeepBuffer(b, st, isClosed, fail) ==
    IF b.buffer = <<>>
    THEN [bac |-> b, store |-> st, err |-> None, wrote |-> <<>>]
    ELSE LET r == append_chunk(st, isClosed, concatenate(b.buffer), b.codec, fail)
         IN IF r.err # None
            THEN [bac |-> b, store |-> st, err |-> r.err, wrote |-> <<>>]
            ELSE [bac |-> [b EXCEPT !.buffered_bytes = 0],
                  store |-> r.store, err |-> None, wrote |-> <<r.index>>]

bac_flush_Readvise(b, st, isClosed, fail) ==
    IF b.buffer = <<>>
    THEN [bac |-> b, store |-> st, err |-> None, wrote |-> <<>>]
    ELSE LET advised == recommend_codec(concatenate(b.buffer))
             r == append_chunk(st, isClosed, concatenate(b.buffer),
                               IF Raises(advised) THEN b.codec ELSE advised, fail)
         IN IF r.err # None
            THEN [bac |-> b, store |-> st, err |-> r.err, wrote |-> <<>>]
            ELSE [bac |-> [b EXCEPT !.buffer = <<>>, !.buffered_bytes = 0],
                  store |-> r.store, err |-> None, wrote |-> <<r.index>>]

bac_flush_KeepCounter(b, st, isClosed, fail) ==
    IF b.buffer = <<>>
    THEN [bac |-> b, store |-> st, err |-> None, wrote |-> <<>>]
    ELSE LET r == append_chunk(st, isClosed, concatenate(b.buffer), b.codec, fail)
         IN IF r.err # None
            THEN [bac |-> b, store |-> st, err |-> r.err, wrote |-> <<>>]
            ELSE [bac |-> [b EXCEPT !.buffer = <<>>],
                  store |-> r.store, err |-> None, wrote |-> <<r.index>>]

bac_flush_DropOnError(b, st, isClosed, fail) ==
    IF b.buffer = <<>>
    THEN [bac |-> b, store |-> st, err |-> None, wrote |-> <<>>]
    ELSE LET r == append_chunk(st, isClosed, concatenate(b.buffer), b.codec, fail)
         IN [bac |-> [b EXCEPT !.buffer = <<>>, !.buffered_bytes = 0],
             store |-> r.store, err |-> r.err,
             wrote |-> IF r.err # None THEN <<>> ELSE <<r.index>>]

\* BufferedAutoChunker.flush
bac_flush(b, st, isClosed, fail) ==
    IF b.buffer = <<>>
    THEN [bac |-> b, store |-> st, err |-> None, wrote |-> <<>>]
    ELSE LET full_chunk == concatenate(b.buffer)
             r == append_chunk(st, isClosed, full_chunk, b.codec, fail)
         IN IF r.err # None
            THEN [bac |-> b, store |-> st, err |-> r.err, wrote |-> <<>>]
            ELSE [bac |-> [b EXCEPT !.buffer = <<>>, !.buffered_bytes = 0],
                  store |-> r.store, err |-> None, wrote |-> <<r.index>>]

\* BufferedAutoChunker.append.  probe = [fail, compressed_size]: what the
\* throwaway probe store does if this call calibrates; fail: the primary
\* engine rejects the StoreChunk of a flush triggered by this call.
\* buffered: the array was put into the buffer before the call ended.
bac_append(b, st, isClosed, data, probe, fail) ==
    IF isClosed
    THEN [bac |-> b, store |-> st, err |-> "ValueError", wrote |-> <<>>, buffered |-> FALSE]
    ELSE IF b.buffer = <<>> /\ b.codec = None /\ Raises(recommend_codec(data))
    THEN [bac |-> b, store |-> st, err |-> recommend_codec(data), wrote |-> <<>>,
          buffered |-> FALSE]
    ELSE LET b1 == IF b.buffer = <<>> /\ b.codec = None
                   THEN [b EXCEPT !.codec = recommend_codec(data)]
                   ELSE b
             calibrates == b1.compression_ratio = None /\ rows(data) # 0
         IN IF calibrates /\ Falsy(b1.codec) /\ Raises(recommend_codec(ProbeSample(data)))
            THEN [bac |-> b1, store |-> st, err |-> recommend_codec(ProbeSample(data)),
                  wrote |-> <<>>, buffered |-> FALSE]
            ELSE IF calibrates /\ probe.fail
            THEN [bac |-> b1, store |-> st, err |-> "CddOperationError",
                  wrote |-> <<>>, buffered |-> FALSE]
            ELSE LET b2 == bac_estimate(b1, data, probe.compressed_size)
                     b3 == [b2 EXCEPT !.buffer = Append(@, data),
                                      !.buffered_bytes = @ + nbytes(data)]
                 IN IF b3.buffered_bytes >= b3.uncompressed_chunk_size
                    THEN LET f == bac_flush(b3, st, isClosed, fail)
                         IN [bac |-> f.bac, store |-> f.store, err |-> f.err,
                             wrote |-> f.wrote, buffered |-> TRUE]
                    ELSE [bac |-> b3, store |-> st, err |-> None,
                          wrote |-> <<>>, buffered |-> TRUE]

bac_exit_AlwaysFlush(b, st, isClosed, in_flight, fail) ==
    [bac |-> bac_flush(b, st, isClosed, fail).bac,
     store |-> bac_flush(b, st, isClosed, fail).store,
     err |-> bac_flush(b, st, isClosed, fail).err,
     wrote |-> bac_flush(b, st, isClosed, fail).wrote, flushed |-> TRUE]

\* BufferedAutoChunker.__exit__.  in_flight: exc_type is not None.
\* flushed: __exit__ called self.flush().
bac_exit(b, st, isClosed, in_flight, fail) ==
    IF in_flight
    THEN [bac |-> b, store |-> st, err |-> None, wrote |-> <<>>, flushed |-> FALSE]
    ELSE LET f == bac_flush(b, st, isClosed, fail)
         IN [bac |-> f.bac, store |-> f.store, err |-> f.err, wrote |-> f.wrote,
             flushed |-> TRUE]

-----------------------------------------------------------------------------
(* Inputs of the writer scenarios *)

\* row counts of the appended arrays
RowChoices == {0, 1, 2}

\* (target_chunk_bytes, codec, min_compression_ratio, max_buffer_multiplier)
WriterConfigs ==
    {<<8, "ZSTD_COMPRESSED", <<1, 4>>, 2>>, <<16, "RAW", <<1, 4>>, 2>>, <<8, None, <<1, 4>>, 2>>}

\* compressed sizes the probe store may report for a sample of o bytes
ProbeSizes(o) == {(o + 3) \div 4, o, o + 8}

FailChoices == IF failures < faults THEN BOOLEAN ELSE {FALSE}

IsEngineError(err) == err = "CddOperationError"

-----------------------------------------------------------------------------
(* Scenario: one BufferedAutoChunker on a fresh write-truncate store *)

InitChunker ==
    /\ store = <<>>
    /\ closed = FALSE
    /\ faults = 0
    /\ failures = 0
    /\ nextVal = 1
    /\ phase = "open"
    /\ result = [op |-> "init", err |-> None]
    /\ \E cfg \in WriterConfigs : bac = BufferedAutoChunker(cfg[1], cfg[2], cfg[3], cfg[4])
    /\ gw = None
    /\ rd = None
    /\ gr = None
    /\ gen = None
    /\ passes = <<>>
    /\ appended = <<>>
    /\ wrote = <<>>
    /\ flushes = <<>>
    /\ probes = <<>>
    /\ inspected = <<>>

\* buffer.append(data) inside the with-block
BacAppend ==
    /\ phase = "open"
    /\ Len(appended) < MaxAppends
    /\ \E dtype \in Dtypes, n \in RowChoices, pf \in FailChoices, cf \in FailChoices,
          f \in FailChoices :
       \E c \in (IF bac.compression_ratio = None THEN ProbeSizes(n * ItemSize(dtype)) ELSE {0}) :
          LET data == MkArray(dtype, nextVal, n)
              probing == bac_probes(bac, closed, data)
              p == bac_probe(store, ProbeSample(data), bac_probe_codec(bac, ProbeSample(data)),
                             pf, cf)
              r == bac_append(bac, IF probing THEN p.primary ELSE store, closed, data,
                              [fail |-> probing /\ p.err # None, compressed_size |-> c], f)
          IN /\ bac' = r.bac
             /\ store' = r.store
             /\ probing => Len(probes) < MaxProbes
             /\ probes' = IF probing THEN Append(probes, p) ELSE probes
             /\ wrote' = wrote \o r.wrote
             /\ appended' = IF r.buffered THEN Append(appended, data) ELSE appended
             /\ nextVal' = IF r.buffered THEN nextVal + n ELSE nextVal
             /\ failures' = IF IsEngineError(r.err) THEN failures + 1 ELSE failures
             /\ result' = [op |-> "append", err |-> r.err]
    /\ UNCHANGED <<closed, faults, phase, gw, flushes, rd, grVars, inspected>>

\* buffer.flush() / buffer.close() called by the user
BacFlush ==
    /\ phase = "open"
    /\ \E f \in FailChoices :
          LET r == bac_flush(bac, store, closed, f)
          IN /\ bac' = r.bac
             /\ store' = r.store
             /\ wrote' = wrote \o r.wrote
             /\ failures' = IF IsEngineError(r.err) THEN failures + 1 ELSE failures
             /\ result' = [op |-> "flush", err |-> r.err]
    /\ UNCHANGED <<closed, faults, phase, appended, nextVal, gw, flushes, rd, grVars,
                 probes, inspected>>

\* BufferedAutoChunker.__exit__ with no exception in flight: the final flush
BacExitOk ==
    /\ phase = "open"
    /\ \E f \in FailChoices :
          LET r == bac_flush(bac, store, closed, f)
          IN /\ bac' = r.bac
             /\ store' = r.store
             /\ wrote' = wrote \o r.wrote
             /\ failures' = IF IsEngineError(r.err) THEN failures + 1 ELSE failures
             /\ result' = [op |-> "exit", err |-> r.err]
             /\ phase' = IF r.err = None THEN "exited_ok" ELSE "exited_err"
    /\ UNCHANGED <<closed, faults, appended, nextVal, gw, flushes, rd, grVars,
                 probes, inspected>>

\* BufferedAutoChunker.__exit__ with an exception in flight: no flush
BacExitErr ==
    /\ phase = "open"
    /\ phase' = "exited_err"
    /\ result' = [op |-> "exit", err |-> "in_flight"]
    /\ UNCHANGED <<store, closed, faults, failures, nextVal, bac, gw, appended, wrote, flushes, rd, grVars,
                 probes, inspected>>

\* Writer.close() on the primary handle: the Flush operation, which the engine
\* may reject, then the release of the handle
WriterClose ==
    /\ phase = "open"
    /\ ~closed
    /\ \E f \in FailChoices :
          LET r == writer_close(closed, f)
          IN /\ closed' = r.closed
             /\ failures' = IF IsEngineError(r.err) THEN failures + 1 ELSE failures
             /\ result' = [op |-> "close", err |-> r.err]
    /\ UNCHANGED <<store, faults, nextVal, phase, bac, gw, appended, wrote, flushes, rd, grVars,
                 probes, inspected>>

NextChunker == BacAppend \/ BacFlush \/ BacExitOk \/ BacExitErr \/ WriterClose

SpecChunker == InitChunker /\ [][NextChunker]_vars

\* data of the chunks at the given indices, concatenated in that order
RECURSIVE ChunkData(_, _)
ChunkData(st, idxs) ==
    IF idxs = <<>> THEN <<>> ELSE st[Head(idxs) + 1].data \o ChunkData(st, Tail(idxs))

IsIncreasing(s) == \A i \in 1..(Len(s) - 1) : s[i] < s[i + 1]

\* C1: when the scope of a BufferedAutoChunker exits without error and no
\* engine operation failed, the chunks it wrote, concatenated in chunk-index
\* order, are exactly the appended arrays concatenated in append order.
C1_ChunkerPreservesStream ==
    (phase = "exited_ok" /\ failures = 0) =>
        /\ IsIncreasing(wrote)
        /\ ChunkData(store, wrote) = ConcatData(appended)

C1_Witness ==
    /\ phase = "exited_ok"
    /\ failures = 0
    /\ Len(appended) = 3
    /\ Len(wrote) = 2
    /\ Len(ConcatData(appended)) >= 3

-----------------------------------------------------------------------------
(* GroupedWriter (stream/writers.py) *)

\* A group (the dict passed to append) is a sequence of [name, arr] entries in
\* the dict's key order.  The per-name buffers (a defaultdict of lists) are a
\* sequence of [name, list] entries in key insertion order.

\* the value None of the Optional[Set[str]] _array_names
NoNames == {None}

\* GroupedWriter.__init__
GroupedWriter(target_chunk_bytes, codecs, min_compression_ratio, max_buffer_multiplier) ==
    LET max_buffer_bytes == target_chunk_bytes * max_buffer_multiplier
        initial_target == IntDivRatio(target_chunk_bytes, min_compression_ratio)
    IN [ target_chunk_bytes |-> target_chunk_bytes,
         codecs |-> codecs,
         min_compression_ratio |-> min_compression_ratio,
         max_buffer_bytes |-> max_buffer_bytes,
         buffers |-> <<>>,
         total_buffered_bytes |-> 0,
         uncompressed_chunk_size |-> Min(initial_target, max_buffer_bytes),
         array_names |-> NoNames ]

\* set(data.keys())
DictKeys(data) == {data[i].name : i \in 1..Len(data)}

\* [e.name for e in entries]
RECURSIVE KeyOrder(_)
KeyOrder(entries) ==
    IF entries = <<>> THEN <<>> ELSE <<Head(entries).name>> \o KeyOrder(Tail(entries))

\* self.codecs.get(name) or codec_selector.recommend_codec(arr)
gw_codec(g, name, arr) ==
    LET c == IF name \in DOMAIN g.codecs THEN g.codecs[name] ELSE None
    IN IF Falsy(c) THEN recommend_codec(arr) ELSE c

\* total original_size of the samples written to the probe store
RECURSIVE SampleOriginal(_)
SampleOriginal(data) ==
    IF data = <<>> THEN 0
    ELSE (IF rows(Head(data).arr) = 0 THEN 0 ELSE nbytes(ProbeSample(Head(data).arr)))
         + SampleOriginal(Tail(data))

\* GroupedWriter._estimate_uncompressed_chunk_size once the probe store has
\* reported the samples' compressed sizes (their sum is compressed_size)
gw_estimate(g, data, compressed_size) ==
    IF g.array_names # NoNames THEN g
    ELSE LET original_size == SampleOriginal(data)
             overall_ratio == IF original_size > 0
                              THEN MaxRatio(g.min_compression_ratio, <<compressed_size, original_size>>)
                              ELSE <<1, 2>>
             uncompressed_target == IntDivRatio(g.target_chunk_bytes, overall_ratio)
         IN [g EXCEPT !.uncompressed_chunk_size = Min(uncompressed_target, g.max_buffer_bytes)]

\* self._buffers[name].append(array)
buffers_append(bufs, name, arr) ==
    IF \E i \in 1..Len(bufs) : bufs[i].name = name
    THEN [i \in 1..Len(bufs) |->
            IF bufs[i].name = name THEN [bufs[i] EXCEPT !.list = Append(@, arr)] ELSE bufs[i]]
    ELSE Append(bufs, [name |-> name, list |-> <<arr>>])

\* the loop `for name, array in data.items()` of append, on the buffers
RECURSIVE buffers_extend(_, _)
buffers_extend(bufs, data) ==
    IF data = <<>> THEN bufs
    ELSE buffers_extend(buffers_append(bufs, Head(data).name, Head(data).arr), Tail(data))

RECURSIVE GroupBytes(_)
GroupBytes(data) ==
    IF data = <<>> THEN 0 ELSE nbytes(Head(data).arr) + GroupBytes(Tail(data))

RECURSIVE gw_write_buffers_Rollback(_, _, _, _, _, _)
gw_write_buffers_Rollback(g, bufs, st, isClosed, failAt, k) ==
    IF bufs = <<>> THEN [store |-> st, err |-> None, wrote |-> <<>>]
    ELSE LET e == Head(bufs)
         IN IF e.list = <<>>
            THEN gw_write_buffers_Rollback(g, Tail(bufs), st, isClosed, failAt, k)
            ELSE LET full_chunk == concatenate(e.list)
                     codec_to_use == gw_codec(g, e.name, full_chunk)
                     r == append_chunk(st, isClosed, full_chunk, codec_to_use, failAt = k)
                 IN IF Raises(codec_to_use)
                    THEN [store |-> st, err |-> codec_to_use, wrote |-> <<>>]
                    ELSE IF r.err # None
                    THEN [store |-> st, err |-> r.err, wrote |-> <<>>]
                    ELSE LET rest == gw_write_buffers_Rollback(g, Tail(bufs), r.store, isClosed,
                                                               failAt, k + 1)
                         IN [store |-> IF rest.err # None THEN st ELSE rest.store,
                             err |-> rest.err,
                             wrote |-> <<[name |-> e.name, index |-> r.index]>> \o rest.wrote]

\* the loop `for name, array_list in self._buffers.items()` of flush: one
\* append_chunk per buffered name, in buffer order, stopping at the first
\* error.  failAt: position (from k) of the write the engine rejects, 0 = none.
RECURSIVE gw_write_buffers(_, _, _, _, _, _)
gw_write_buffers(g, bufs, st, isClosed, failAt, k) ==
    IF bufs = <<>> THEN [store |-> st, err |-> None, wrote |-> <<>>]
    ELSE LET e == Head(bufs)
         IN IF e.list = <<>>
            THEN gw_write_buffers(g, Tail(bufs), st, isClosed, failAt, k)
            ELSE LET full_chunk == concatenate(e.list)
                     codec_to_use == gw_codec(g, e.name, full_chunk)
                     r == append_chunk(st, isClosed, full_chunk, codec_to_use, failAt = k)
                 IN IF Raises(codec_to_use)
                    THEN [store |-> st, err |-> codec_to_use, wrote |-> <<>>]
                    ELSE IF r.err # None
                    THEN [store |-> st, err |-> r.err, wrote |-> <<>>]
                    ELSE LET rest == gw_write_buffers(g, Tail(bufs), r.store, isClosed, failAt, k + 1)
                         IN [store |-> rest.store, err |-> rest.err,
                             wrote |-> <<[name |-> e.name, index |-> r.index]>> \o rest.wrote]

\* GroupedWriter.flush.  reached: the flush got as far as the engine.
gw_flush(g, st, isClosed, failAt) ==
    IF g.total_buffered_bytes = 0
    THEN [gw |-> g, store |-> st, err |-> None, wrote |-> <<>>, reached |-> FALSE]
    ELSE LET w == gw_write_buffers(g, g.buffers, st, isClosed, failAt, 1)
         IN IF w.err # None
            THEN [gw |-> g, store |-> w.store, err |-> w.err, wrote |-> w.wrote, reached |-> TRUE]
            ELSE [gw |-> [g EXCEPT !.buffers = <<>>, !.total_buffered_bytes = 0],
                  store |-> w.store, err |-> None, wrote |-> w.wrote, reached |-> TRUE]

\* the probe loop of _estimate_uncompressed_chunk_size raises while choosing
\* the codec of a non-empty array
gw_sample_raises(g, data) ==
    \E i \in 1..Len(data) :
        /\ rows(data[i].arr) # 0
        /\ Raises(gw_codec(g, data[i].name, ProbeSample(data[i].arr)))

\* append reaches the with-statement of _estimate_uncompressed_chunk_size:
\* the primary writer is open, the dict is not empty, no key set is recorded
gw_probes(g, isClosed, data) ==
    /\ ~isClosed
    /\ data # <<>>
    /\ g.array_names = NoNames

\* the loop `for name, array in data.items()` inside the with-statement, on the
\* probe store pst: one StoreChunk per array that has rows, stopping at the
\* first error.  wfailAt: position (from k) of the write the probe store's
\* engine rejects, 0 = none.
RECURSIVE gw_probe_loop(_, _, _, _, _)
gw_probe_loop(g, data, pst, wfailAt, k) ==
    IF data = <<>> THEN [err |-> None, store |-> pst]
    ELSE IF rows(Head(data).arr) = 0 THEN gw_probe_loop(g, Tail(data), pst, wfailAt, k)
    ELSE LET sample == ProbeSample(Head(data).arr)
             codec_to_use == gw_codec(g, Head(data).name, sample)
             res == append_chunk(pst, FALSE, sample, codec_to_use, wfailAt = k)
         IN IF Raises(codec_to_use) THEN [err |-> codec_to_use, store |-> pst]
            ELSE IF res.err # None THEN [err |-> res.err, store |-> pst]
            ELSE gw_probe_loop(g, Tail(data), res.store, wfailAt, k + 1)

\* the with-statement of _estimate_uncompressed_chunk_size on a fresh probe
\* store, beside the primary store st.  cfail: the probe store's engine
\* rejects the Flush that Writer.close sends when the with-statement is left.
gw_probe(st, g, data, wfailAt, cfail) ==
    LET w == gw_probe_loop(g, data, <<>>, wfailAt, 1)
        c == writer_close(FALSE, cfail)
    IN [config |-> cdd_open(None, "w"),
        err |-> IF c.err # None THEN c.err ELSE w.err,
        stored |-> Len(w.store),
        closed |-> c.closed,
        before |-> st,
        primary |-> st]

gw_check_keys_Missing(g, current_keys) == TRUE

\* the key-set check of append on a writer that has recorded its names
gw_check_keys(g, current_keys) == g.array_names = current_keys

\* the names for which the probe loop of _estimate_uncompressed_chunk_size
\* evaluates `self.codecs.get(name) or ...`: those of the arrays with rows, in
\* dict order, up to the first one at which the loop raises
RECURSIVE gw_probe_chosen(_, _, _, _, _)
gw_probe_chosen(g, data, pst, wfailAt, k) ==
    IF data = <<>> THEN {}
    ELSE IF rows(Head(data).arr) = 0 THEN gw_probe_chosen(g, Tail(data), pst, wfailAt, k)
    ELSE LET sample == ProbeSample(Head(data).arr)
             codec_to_use == gw_codec(g, Head(data).name, sample)
             res == append_chunk(pst, FALSE, sample, codec_to_use, wfailAt = k)
         IN {Head(data).name} \cup
               (IF Raises(codec_to_use) \/ res.err # None THEN {}
                ELSE gw_probe_chosen(g, Tail(data), res.store, wfailAt, k + 1))

\* the names for which the loop of flush evaluates `self.codecs.get(name) or
\* ...`: those with buffered arrays, in buffer order, up to the first one at
\* which the loop raises
RECURSIVE gw_flush_loop_chosen(_, _, _, _, _, _)
gw_flush_loop_chosen(g, bufs, st, isClosed, failAt, k) ==
    IF bufs = <<>> THEN {}
    ELSE LET e == Head(bufs)
         IN IF e.list = <<>>
            THEN gw_flush_loop_chosen(g, Tail(bufs), st, isClosed, failAt, k)
            ELSE LET full_chunk == concatenate(e.list)
                     codec_to_use == gw_codec(g, e.name, full_chunk)
                     r == append_chunk(st, isClosed, full_chunk, codec_to_use, failAt = k)
                 IN {e.name} \cup
                       (IF Raises(codec_to_use) \/ r.err # None THEN {}
                        ELSE gw_flush_loop_chosen(g, Tail(bufs), r.store, isClosed, failAt,
                                                  k + 1))

\* the names whose codec one call of flush chooses
gw_flush_chosen(g, st, isClosed, failAt) ==
    IF g.total_buffered_bytes = 0 THEN {}
    ELSE gw_flush_loop_chosen(g, g.buffers, st, isClosed, failAt, 1)

\* the names whose codec one call of append chooses, r being the call's
\* outcome: those of the calibration probe of a first call, and those of the
\* flush the call went on to after it buffered the dict
gw_append_chosen(g, st, isClosed, data, wfailAt, failAt, r) ==
    (IF gw_probes(g, isClosed, data) THEN gw_probe_chosen(g, data, <<>>, wfailAt, 1) ELSE {})
       \cup
    (IF r.buffered /\ r.reached
     THEN gw_flush_chosen([g EXCEPT !.buffers = buffers_extend(@, data),
                                    !.total_buffered_bytes = @ + GroupBytes(data)],
                          st, isClosed, failAt)
     ELSE {})

\* GroupedWriter.append.  probe = [fail, compressed_size]: what the probe
\* store does if this call calibrates; failAt as for flush.
gw_append(g, st, isClosed, data, probe, failAt) ==
    LET unchanged(err) == [gw |-> g, store |-> st, err |-> err, wrote |-> <<>>,
                           reached |-> FALSE, buffered |-> FALSE]
        first == g.array_names = NoNames
    IN IF isClosed THEN unchanged("ValueError")
       ELSE IF data = <<>> THEN unchanged(None)
       ELSE IF first /\ probe.fail THEN unchanged("CddOperationError")
       ELSE IF first /\ gw_sample_raises(g, data) THEN unchanged(ClassPatternError)
       ELSE IF ~first /\ ~gw_check_keys(g, DictKeys(data)) THEN unchanged("ValueError:keys")
       ELSE LET g1 == IF first
                      THEN [gw_estimate(g, data, probe.compressed_size)
                               EXCEPT !.array_names = DictKeys(data)]
                      ELSE g
                num_rows == rows(data[1].arr)
            IN IF \E i \in 1..Len(data) : rows(data[i].arr) # num_rows
               THEN [gw |-> g1, store |-> st, err |-> "ValueError:rows", wrote |-> <<>>,
                     reached |-> FALSE, buffered |-> FALSE]
               ELSE LET g2 == [g1 EXCEPT !.buffers = buffers_extend(@, data),
                                         !.total_buffered_bytes = @ + GroupBytes(data)]
                    IN IF g2.total_buffered_bytes >= g2.uncompressed_chunk_size
                       THEN LET f == gw_flush(g2, st, isClosed, failAt)
                            IN [gw |-> f.gw, store |-> f.store, err |-> f.err, wrote |-> f.wrote,
                                reached |-> f.reached, buffered |-> TRUE]
                       ELSE [gw |-> g2, store |-> st, err |-> None, wrote |-> <<>>,
                             reached |-> FALSE, buffered |-> TRUE]

\* GroupedWriter.__exit__.  in_flight: exc_type is not None.
gw_exit(g, st, isClosed, in_flight, failAt) ==
    IF in_flight
    THEN [gw |-> g, store |-> st, err |-> None, wrote |-> <<>>, reached |-> FALSE,
          flushed |-> FALSE]
    ELSE LET f == gw_flush(g, st, isClosed, failAt)
         IN [gw |-> f.gw, store |-> f.store, err |-> f.err, wrote |-> f.wrote,
             reached |-> f.reached, flushed |-> TRUE]

-----------------------------------------------------------------------------
(* Scenario: one GroupedWriter on a fresh write-truncate store *)

Names == {"p", "v"}

NameDtype(name) == IF name = "p" THEN "FLOAT32" ELSE "INT64"

\* key orders of the dicts passed to append
KeyOrders == {<<>>, <<"p">>, <<"p", "v">>, <<"v", "p">>}

NoCodecs == [n \in {} |-> None]

\* (target_chunk_bytes, codecs, min_compression_ratio, max_buffer_multiplier)
GroupedConfigs ==
    {<<8, [n \in Names |-> "ZSTD_COMPRESSED"], <<1, 4>>, 2>>,
     <<16, [n \in {"p"} |-> "RAW"], <<1, 4>>, 2>>}

RECURSIVE SumTo(_, _)
SumTo(rs, k) == IF k = 0 THEN 0 ELSE rs[k] + SumTo(rs, k - 1)

\* the dict {order[1]: array of rs[1] rows, ...} with rows numbered from `from`
MkGroup(order, rs, from) ==
    [i \in 1..Len(order) |->
        [name |-> order[i],
         arr |-> MkArray(NameDtype(order[i]), from + SumTo(rs, i - 1), rs[i])]]

FailAtChoices == IF failures < faults THEN 0..Cardinality(Names) ELSE {0}

InitGrouped ==
    /\ store = <<>>
    /\ closed = FALSE
    /\ faults = 0
    /\ failures = 0
    /\ nextVal = 1
    /\ phase = "open"
    /\ result = [op |-> "init", err |-> None]
    /\ bac = None
    /\ \E cfg \in GroupedConfigs : gw = GroupedWriter(cfg[1], cfg[2], cfg[3], cfg[4])
    /\ rd = None
    /\ gr = None
    /\ gen = None
    /\ passes = <<>>
    /\ appended = <<>>
    /\ wrote = <<>>
    /\ flushes = <<>>
    /\ probes = <<>>
    /\ inspected = <<>>

\* the history records a flush that succeeded at the engine or left chunks there
FlushLog(r) ==
    IF r.reached /\ (r.err = None \/ r.wrote # <<>>)
    THEN Append(flushes, [ok |-> r.err = None, chunks |-> r.wrote])
    ELSE flushes

\* grouper.append(data) inside the with-block
GwAppend ==
    /\ phase = "open"
    /\ Len(appended) < MaxAppends
    /\ \E order \in KeyOrders, pfa \in FailAtChoices, cf \in FailChoices, fa \in FailAtChoices :
       \E rs \in [1..Len(order) -> RowChoices] :
       \E c \in (IF gw.array_names = NoNames
                 THEN ProbeSizes(SampleOriginal(MkGroup(order, rs, nextVal)))
                 ELSE {0}) :
          LET data == MkGroup(order, rs, nextVal)
              probing == gw_probes(gw, closed, data)
              p == gw_probe(store, gw, data, pfa, cf)
              r == gw_append(gw, IF probing THEN p.primary ELSE store, closed, data,
                             [fail |-> probing /\ IsEngineError(p.err), compressed_size |-> c],
                             fa)
          IN /\ gw' = r.gw
             /\ store' = r.store
             /\ probing => Len(probes) < MaxProbes
             /\ probes' = IF probing THEN Append(probes, p) ELSE probes
             /\ flushes' = FlushLog(r)
             /\ appended' = IF r.buffered THEN Append(appended, data) ELSE appended
             /\ nextVal' = IF r.buffered THEN nextVal + SumTo(rs, Len(order)) ELSE nextVal
             /\ failures' = IF IsEngineError(r.err) THEN failures + 1 ELSE failures
             /\ result' = [op |-> "append", err |-> r.err, was_closed |-> closed,
                           keys |-> DictKeys(data), names_before |-> gw.array_names,
                           row_counts |-> {rows(data[i].arr) : i \in 1..Len(data)},
                           kept |-> (r.gw.buffers = gw.buffers
                                     /\ r.gw.total_buffered_bytes = gw.total_buffered_bytes
                                     /\ r.store = store)]
    /\ UNCHANGED <<closed, faults, phase, bac, wrote, rd, grVars, inspected>>

\* grouper.flush() / grouper.close() called by the user
GwFlush ==
    /\ phase = "open"
    /\ \E fa \in FailAtChoices :
          LET r == gw_flush(gw, store, closed, fa)
          IN /\ gw' = r.gw
             /\ store' = r.store
             /\ flushes' = FlushLog(r)
             /\ failures' = IF IsEngineError(r.err) THEN failures + 1 ELSE failures
             /\ result' = [op |-> "flush", err |-> r.err,
                           chosen |-> gw_flush_chosen(gw, store, closed, fa)]
    /\ UNCHANGED <<closed, faults, phase, nextVal, bac, appended, wrote, rd, grVars,
                 probes, inspected>>

\* GroupedWriter.__exit__ with no exception in flight: the final flush
GwExitOk ==
    /\ phase = "open"
    /\ \E fa \in FailAtChoices :
          LET r == gw_flush(gw, store, closed, fa)
          IN /\ gw' = r.gw
             /\ store' = r.store
             /\ flushes' = FlushLog(r)
             /\ failures' = IF IsEngineError(r.err) THEN failures + 1 ELSE failures
             /\ result' = [op |-> "exit", err |-> r.err,
                           chosen |-> gw_flush_chosen(gw, store, closed, fa)]
             /\ phase' = IF r.err = None THEN "exited_ok" ELSE "exited_err"
    /\ UNCHANGED <<closed, faults, nextVal, bac, appended, wrote, rd, grVars,
                 probes, inspected>>

\* GroupedWriter.__exit__ with an exception in flight: no flush
GwExitErr ==
    /\ phase = "open"
    /\ phase' = "exited_err"
    /\ result' = [op |-> "exit", err |-> "in_flight"]
    /\ UNCHANGED <<store, closed, faults, failures, nextVal, bac, gw, appended, wrote, flushes, rd, grVars,
                 probes, inspected>>

NextGrouped == GwAppend \/ GwFlush \/ GwExitOk \/ GwExitErr \/ WriterClose

SpecGrouped == InitGrouped /\ [][NextGrouped]_vars

\* the names of the chunks a flush wrote, in write order
FlushNames(f) == KeyOrder(f.chunks)

\* C2: any two successful flushes of one GroupedWriter write their per-name
\* chunks in the same name order, whatever the key order of the appended dicts.
C2_FlushOrderFixed ==
    \A i, j \in 1..Len(flushes) :
        (flushes[i].ok /\ flushes[j].ok) => FlushNames(flushes[i]) = FlushNames(flushes[j])

\* the sequences that hold every name of a set once
NameOrders(names) ==
    {o \in [1..Cardinality(names) -> names] : \A a, b \in DOMAIN o : o[a] = o[b] => a = b}

\* the index of the chunk a flush wrote for a name
IndexOf(f, name) == f.chunks[CHOOSE k \in 1..Len(f.chunks) : f.chunks[k].name = name].index

\* a successful flush that writes data writes exactly one chunk for each name
\* of the required key set, at consecutive chunk indices
FlushOneChunkEach(f) ==
    (f.ok /\ f.chunks # <<>>) =>
        /\ gw.array_names # NoNames
        /\ DictKeys(f.chunks) = gw.array_names
        /\ Len(f.chunks) = Cardinality(gw.array_names)
        /\ \A k \in 1..Len(f.chunks) : f.chunks[k].index = f.chunks[1].index + (k - 1)

\* every flush has written one chunk per name at consecutive indices, in
\* whatever order
OneChunkPerNameInSomeOrder == \A i \in 1..Len(flushes) : FlushOneChunkEach(flushes[i])

\* C3: a successful flush that writes data writes exactly one chunk for each
\* name of the required key set, at consecutive chunk indices, and there is
\* one order name_0, name_1, ... of the writer's names for which, in every
\* such flush, the chunk of name_k is at the index of name_0's chunk plus k.
C3_FlushOneChunkPerName ==
    /\ \A i \in 1..Len(flushes) : FlushOneChunkEach(flushes[i])
    /\ gw.array_names # NoNames =>
          \E order \in NameOrders(gw.array_names) :
             \A i \in 1..Len(flushes) :
                LET f == flushes[i]
                IN (f.ok /\ f.chunks # <<>>) =>
                      \A k \in 1..Len(order) :
                         IndexOf(f, order[k]) = IndexOf(f, order[1]) + (k - 1)

\* the last operation was an append, on an open writer that had recorded its
\* key set, of a dict whose key set differs from it
KeySetDiffers ==
    /\ result.op = "append"
    /\ ~result.was_closed
    /\ result.names_before # NoNames
    /\ result.keys # result.names_before

\* C18 as stated: once the key set is recorded, every later append whose key
\* set differs (a name missing or an extra name) fails with the key-set
\* ValueError, and none of its arrays is buffered or written.
C18_KeySetMismatchFails ==
    KeySetDiffers => (result.err = "ValueError:keys" /\ result.kept)

\* C18 amended: once the key set is recorded, every later append of a
\* non-empty dict whose key set differs fails with the key-set ValueError and
\* none of its arrays is buffered or written; append of an empty dict returns
\* without error and without effect.
C18_NonEmptyKeySetMismatchFails ==
    KeySetDiffers =>
        /\ result.kept
        /\ result.err = IF result.keys = {} THEN None ELSE "ValueError:keys"

\* a dict lacking the name v, after {p, v} was recorded and a group buffered
C18_Witness ==
    /\ KeySetDiffers
    /\ result.names_before = {"p", "v"}
    /\ result.keys = {"p"}
    /\ result.err = "ValueError:keys"
    /\ gw.total_buffered_bytes > 0
    /\ Len(store) = 2

\* C19: every append (on an open writer, of a dict that passes the key-set
\* check) whose arrays do not all have the same row count fails with the
\* row-count ValueError, and none of its arrays is buffered or written.
C19_RowCountMismatchFails ==
    (/\ result.op = "append"
     /\ ~result.was_closed
     /\ result.names_before \in {NoNames, result.keys}
     /\ Cardinality(result.row_counts) > 1) =>
        (result.err = "ValueError:rows" /\ result.kept)

-----------------------------------------------------------------------------
(* Engine read side (modelled from the protocol) *)

\* Inspect: the header (the index block has one entry per chunk; no user
\* metadata was set) and one summary per chunk, in index order
EngineInspect(st) ==
    [ total_chunks |-> Len(st),
      file_header |-> [user_metadata_base64 |-> "", index_block_size |-> Len(st)],
      chunk_summaries |->
          [i \in 1..Len(st) |->
              [index |-> st[i].index, shape |-> <<Len(st[i].data)>>,
               dtype |-> st[i].dtype, codec |-> st[i].codec]] ]

\* LoadChunks with selection {"type": "Range", start_index, count}: the decoded
\* chunks start_index .. start_index + count - 1, back to back in index order
RECURSIVE EngineLoadChunks(_, _, _)
EngineLoadChunks(st, start_index, count) ==
    IF count <= 0 \/ start_index + 1 > Len(st) THEN <<>>
    ELSE st[start_index + 1].data \o EngineLoadChunks(st, start_index + 1, count - 1)

-----------------------------------------------------------------------------
(* Reader (file.py) *)

\* An optional integer (a slice bound that may be None) is <<>> or <<k>>.
NoInt == <<>>
Some(k) == <<k>>

\* Reader.__init__: nothing inspected yet
Reader == [inspection |-> <<>>]

reader_inspection_NoCache(r, st, isClosed, fail) ==
    IF isClosed THEN [rd |-> r, err |-> "ValueError", inspects |-> 0]
    ELSE IF fail THEN [rd |-> r, err |-> "CddOperationError", inspects |-> 1]
    ELSE [rd |-> [r EXCEPT !.inspection = <<EngineInspect(st)>>], err |-> None, inspects |-> 1]

\* Reader._inspection (cached_property): the Inspect operation on first use
reader_inspection(r, st, isClosed, fail) ==
    IF r.inspection # <<>> THEN [rd |-> r, err |-> None, inspects |-> 0]
    ELSE IF isClosed THEN [rd |-> r, err |-> "ValueError", inspects |-> 0]
    ELSE IF fail THEN [rd |-> r, err |-> "CddOperationError", inspects |-> 1]
    ELSE [rd |-> [r EXCEPT !.inspection = <<EngineInspect(st)>>], err |-> None, inspects |-> 1]

\* the history of successful Inspect operations after the outcome i of
\* Reader._inspection
InspectLog(i) ==
    IF i.inspects = 1 /\ i.err = None THEN Append(inspected, i.rd.inspection[1]) ELSE inspected

\* Reader.nchunks / Reader.chunks on a reader whose inspection is cached
nchunks(r) == r.inspection[1].total_chunks
chunks(r) == r.inspection[1].chunk_summaries

\* Reader.file_header / Reader.user_metadata on a reader whose inspection is
\* cached; the empty metadata string gives the empty dict
file_header(r) == r.inspection[1].file_header
user_metadata(r) ==
    IF file_header(r).user_metadata_base64 = "" THEN <<>>
    ELSE <<file_header(r).user_metadata_base64>>

\* slice(start, stop, step).indices(length) for step >= 1 or step <= -1
SliceIndices(start, stop, step, length) ==
    LET st == IF step = NoInt THEN 1 ELSE step[1]
        lower == IF st < 0 THEN -1 ELSE 0
        upper == IF st < 0 THEN length - 1 ELSE length
        clamp(b) == IF b < 0 THEN Max(b + length, lower) ELSE Min(b, upper)
        s0 == IF start = NoInt THEN (IF st < 0 THEN upper ELSE lower) ELSE clamp(start[1])
        s1 == IF stop = NoInt THEN (IF st < 0 THEN lower ELSE upper) ELSE clamp(stop[1])
    IN <<s0, s1, st>>

build_load_chunks_req_CountIsStop(start, stop) ==
    [start_index |-> start, count |-> IF stop < 0 THEN 0 ELSE stop]

\* json_builder.build_load_chunks_req for a resolved slice: the Range selection
build_load_chunks_req(start, stop) ==
    [start_index |-> start, count |-> IF stop - start < 0 THEN 0 ELSE stop - start]

\* np.array([], dtype=np.uint8)
EmptyResult == [dtype |-> "UINT8", data |-> <<>>]

\* self.chunks[slice(start, stop)] for resolved 0 <= start, stop
ListSlice(lst, start, stop) ==
    IF start >= Min(stop, Len(lst)) THEN <<>> ELSE SubSeq(lst, start + 1, Min(stop, Len(lst)))

reader_load_NoDtypeCheck(r, st, isClosed, start, stop, fail) ==
    LET chunks_to_load == ListSlice(chunks(r), start, stop)
        out(err, value, loads) == [rd |-> r, err |-> err, value |-> value, loads |-> loads]
    IN IF chunks_to_load = <<>> THEN out(None, EmptyResult, 0)
       ELSE IF isClosed THEN out("ValueError", EmptyResult, 0)
       ELSE LET req == build_load_chunks_req(start, stop)
            IN out(None, [dtype |-> chunks_to_load[1].dtype,
                          data |-> EngineLoadChunks(st, req.start_index, req.count)], 1)

reader_load_NoEmptyCase(r, st, isClosed, start, stop, fail) ==
    LET chunks_to_load == ListSlice(chunks(r), start, stop)
        out(err, value, loads) == [rd |-> r, err |-> err, value |-> value, loads |-> loads]
    IN IF \E i \in 1..Len(chunks_to_load) : chunks_to_load[i].dtype # chunks_to_load[1].dtype
       THEN out("TypeError", EmptyResult, 0)
       ELSE IF isClosed THEN out("ValueError", EmptyResult, 0)
       ELSE IF fail THEN out("CddOperationError", EmptyResult, 1)
       ELSE LET req == build_load_chunks_req(start, stop)
            IN out(None, [dtype |-> IF chunks_to_load = <<>> THEN EmptyResult.dtype
                                    ELSE chunks_to_load[1].dtype,
                          data |-> EngineLoadChunks(st, req.start_index, req.count)], 1)

\* the tail of Reader.__getitem__ after the key is resolved to slice(start, stop):
\* selection, dtype check, buffer, one LoadChunks operation.  loads: the number
\* of LoadChunks operations sent to the engine.
reader_load(r, st, isClosed, start, stop, fail) ==
    LET chunks_to_load == ListSlice(chunks(r), start, stop)
        out(err, value, loads) == [rd |-> r, err |-> err, value |-> value, loads |-> loads]
    IN IF chunks_to_load = <<>> THEN out(None, EmptyResult, 0)
       ELSE IF \E i \in 1..Len(chunks_to_load) : chunks_to_load[i].dtype # chunks_to_load[1].dtype
       THEN out("TypeError", EmptyResult, 0)
       ELSE IF isClosed THEN out("ValueError", EmptyResult, 0)
       ELSE IF fail THEN out("CddOperationError", EmptyResult, 1)
       ELSE LET req == build_load_chunks_req(start, stop)
            IN out(None, [dtype |-> chunks_to_load[1].dtype,
                          data |-> EngineLoadChunks(st, req.start_index, req.count)], 1)

resolve_index_NoWrap(key, n) == key

\* resolved_index = key if key >= 0 else key + self.nchunks
resolve_index(key, n) == IF key >= 0 THEN key ELSE key + n

\* Reader.__getitem__(key: int).  ifail / lfail: the engine rejects the
\* Inspect / the LoadChunks operation.
reader_getitem_int(r, st, isClosed, key, ifail, lfail) ==
    LET i == reader_inspection(r, st, isClosed, ifail)
    IN IF i.err # None
       THEN [rd |-> i.rd, err |-> i.err, value |-> EmptyResult, loads |-> 0]
       ELSE LET resolved_index == resolve_index(key, nchunks(i.rd))
            IN IF ~(0 <= resolved_index /\ resolved_index < nchunks(i.rd))
               THEN [rd |-> i.rd, err |-> "IndexError", value |-> EmptyResult, loads |-> 0]
               ELSE reader_load(i.rd, st, isClosed, resolved_index, resolved_index + 1, lfail)

slice_indices_NoResolve(start, stop, step, length) ==
    <<IF start = NoInt THEN 0 ELSE start[1],
      IF stop = NoInt THEN length ELSE stop[1],
      IF step = NoInt THEN 1 ELSE step[1]>>

\* key.indices(self.nchunks) in Reader.__getitem__
slice_indices(start, stop, step, length) == SliceIndices(start, stop, step, length)

step_supported_Any(step) == TRUE

\* the test `step != 1` of Reader.__getitem__, as the steps it lets through
step_supported(step) == step = 1

\* Reader.__getitem__(key: slice).  slice.indices raises ValueError ("slice
\* step cannot be zero") for a zero step.
reader_getitem_slice(r, st, isClosed, start, stop, step, ifail, lfail) ==
    LET i == reader_inspection(r, st, isClosed, ifail)
    IN IF i.err # None
       THEN [rd |-> i.rd, err |-> i.err, value |-> EmptyResult, loads |-> 0]
       ELSE IF step = Some(0)
       THEN [rd |-> i.rd, err |-> "ValueError:zero_step", value |-> EmptyResult, loads |-> 0]
       ELSE LET ind == slice_indices(start, stop, step, nchunks(i.rd))
            IN IF ~step_supported(ind[3])
               THEN [rd |-> i.rd, err |-> "IndexError", value |-> EmptyResult, loads |-> 0]
               ELSE reader_load(i.rd, st, isClosed, ind[1], ind[2], lfail)

-----------------------------------------------------------------------------
(* Scenario: a Reader over a store written earlier; one read per run, on a
   reader that may already have cached its inspection or been closed *)

\* row counts of the stored chunks
ChunkRows == {0, 2}

RECURSIVE RowsBefore(_, _)
RowsBefore(sp, k) == IF k = 0 THEN 0 ELSE sp[k][2] + RowsBefore(sp, k - 1)

\* the store holding one chunk per <<dtype, rows>> of sp, rows numbered from 1
MkStore(sp) ==
    [i \in 1..Len(sp) |->
        [index |-> i - 1, dtype |-> sp[i][1],
         data |-> MkArray(sp[i][1], 1 + RowsBefore(sp, i - 1), sp[i][2]).data,
         codec |-> "RAW"]]

StoreChoices ==
    UNION { {MkStore(sp) : sp \in [1..k -> Dtypes \X ChunkRows]} : k \in 0..MaxChunks }

\* integer keys, in range and out of range on both sides
KeyRange == (0 - MaxChunks - 1)..(MaxChunks + 1)

BoundChoices == {NoInt} \cup {Some(k) : k \in KeyRange}

StepChoices == {NoInt, Some(1), Some(2), Some(-1)}

\* the steps of the slices given to a Reader, the zero step included
ReaderStepChoices == StepChoices \cup {Some(0)}

InitReader ==
    /\ store \in StoreChoices
    /\ closed = FALSE
    /\ faults = 0
    /\ failures = 0
    /\ nextVal = 1
    /\ phase = "reading"
    /\ result = [op |-> "init", err |-> None]
    /\ bac = None
    /\ gw = None
    /\ rd = Reader
    /\ gr = None
    /\ gen = None
    /\ passes = <<>>
    /\ appended = <<>>
    /\ wrote = <<>>
    /\ flushes = <<>>
    /\ probes = <<>>
    /\ inspected = <<>>

\* reader.nchunks / len(reader)
ReaderNchunks ==
    /\ phase = "reading"
    /\ \E f \in FailChoices :
          LET i == reader_inspection(rd, store, closed, f)
          IN /\ rd' = i.rd
             /\ inspected' = InspectLog(i)
             /\ failures' = IF IsEngineError(i.err) THEN failures + 1 ELSE failures
             /\ result' = [op |-> "nchunks", err |-> i.err]
    /\ UNCHANGED <<store, closed, faults, nextVal, phase, bac, gw, appended, wrote, flushes, grVars, probes>>

\* reader.close()
ReaderClose ==
    /\ phase = "reading"
    /\ ~closed
    /\ closed' = TRUE
    /\ result' = [op |-> "close", err |-> None]
    /\ UNCHANGED <<store, faults, failures, nextVal, phase, bac, gw, rd, appended, wrote, flushes, grVars,
                 probes, inspected>>

\* reader[key] with an integer key
ReaderGetItem ==
    /\ phase = "reading"
    /\ \E key \in KeyRange, f1 \in FailChoices, f2 \in FailChoices :
          LET r == reader_getitem_int(rd, store, closed, key, f1, f2)
          IN /\ rd' = r.rd
             /\ inspected' = InspectLog(reader_inspection(rd, store, closed, f1))
             /\ failures' = IF IsEngineError(r.err) THEN failures + 1 ELSE failures
             /\ result' = [op |-> "item", key |-> key, closed |-> closed,
                           err |-> r.err, value |-> r.value, loads |-> r.loads]
    /\ phase' = "done"
    /\ UNCHANGED <<store, closed, faults, nextVal, bac, gw, appended, wrote, flushes, grVars, probes>>

\* reader[start:stop:step]
ReaderGetSlice ==
    /\ phase = "reading"
    /\ \E start \in BoundChoices, stop \in BoundChoices, step \in ReaderStepChoices,
          f1 \in FailChoices, f2 \in FailChoices :
          LET r == reader_getitem_slice(rd, store, closed, start, stop, step, f1, f2)
          IN /\ rd' = r.rd
             /\ inspected' = InspectLog(reader_inspection(rd, store, closed, f1))
             /\ failures' = IF IsEngineError(r.err) THEN failures + 1 ELSE failures
             /\ result' = [op |-> "slice", start |-> start, stop |-> stop, step |-> step,
                           closed |-> closed, err |-> r.err, value |-> r.value,
                           loads |-> r.loads]
    /\ phase' = "done"
    /\ UNCHANGED <<store, closed, faults, nextVal, bac, gw, appended, wrote, flushes, grVars, probes>>

NextReader == ReaderNchunks \/ ReaderClose \/ ReaderGetItem \/ ReaderGetSlice

SpecReader == InitReader /\ [][NextReader]_vars

\* C8: on an open reader over n chunks, reader[i] is chunk i for 0 <= i < n,
\* chunk i + n for -n <= i < 0, and for any other i an IndexError raised
\* without a LoadChunks operation.
C8_IntegerIndexing ==
    (result.op = "item" /\ ~result.closed) =>
        LET n == Len(store)
            i == result.key
        IN /\ (0 <= i /\ i < n) =>
                 /\ result.err = None
                 /\ result.value.data = store[i + 1].data
                 /\ result.value.dtype = store[i + 1].dtype
           /\ (0 - n <= i /\ i < 0) =>
                 /\ result.err = None
                 /\ result.value.data = store[i + n + 1].data
                 /\ result.value.dtype = store[i + n + 1].dtype
           /\ (i >= n \/ i < 0 - n) => (result.err = "IndexError" /\ result.loads = 0)

C8_Witness ==
    /\ result.op = "item" /\ ~result.closed
    /\ Len(store) = 3
    /\ result.key = -2
    /\ result.err = None
    /\ result.value.data = store[2].data
    /\ Len(store[2].data) = 2

\* Python's reading of the bounds of seq[start:stop] for a sequence of n items
SliceLo(start, n) ==
    IF start = NoInt THEN 0
    ELSE IF start[1] < 0 THEN Max(start[1] + n, 0) ELSE Min(start[1], n)

SliceHi(stop, n) ==
    IF stop = NoInt THEN n
    ELSE IF stop[1] < 0 THEN Max(stop[1] + n, 0) ELSE Min(stop[1], n)

\* the last read was reader[start:stop] with unit step on an open reader
UnitSliceRead ==
    /\ result.op = "slice"
    /\ ~result.closed
    /\ result.step \in {NoInt, Some(1)}

\* the chunk indices reader[start:stop] selects share one element type
SelectionOneDtype(lo, hi) ==
    \A a, b \in lo..(hi - 1) : store[a + 1].dtype = store[b + 1].dtype

\* reader[lo], ..., reader[hi - 1] read one by one and concatenated in that order
RECURSIVE ItemsConcat(_, _)
ItemsConcat(lo, hi) ==
    IF lo >= hi THEN <<>>
    ELSE reader_getitem_int(Reader, store, FALSE, lo, FALSE, FALSE).value.data
         \o ItemsConcat(lo + 1, hi)

\* C9: reader[i:j] with unit step over chunks of one element type is the
\* concatenation, in chunk-index order, of reader[i], ..., reader[j-1], the
\* bounds being resolved against the chunk count as Python slicing does.
C9_SliceIsConcatenation ==
    UnitSliceRead =>
        LET lo == SliceLo(result.start, Len(store))
            hi == SliceHi(result.stop, Len(store))
        IN SelectionOneDtype(lo, hi) =>
              /\ result.err = None
              /\ result.value.data = ItemsConcat(lo, hi)

C9_Witness ==
    /\ UnitSliceRead
    /\ Len(store) = 3
    /\ result.start = Some(-2)
    /\ result.stop = NoInt
    /\ result.err = None
    /\ result.value.data = store[2].data \o store[3].data
    /\ Len(result.value.data) = 4

\* C10: reader[i:j] with unit step over a non-empty selection of chunks that
\* do not share one element type raises TypeError and sends no LoadChunks.
C10_MixedDtypeSlice ==
    UnitSliceRead =>
        LET lo == SliceLo(result.start, Len(store))
            hi == SliceHi(result.stop, Len(store))
        IN (lo < hi /\ ~SelectionOneDtype(lo, hi)) =>
              (result.err = "TypeError" /\ result.loads = 0)

C10_Witness ==
    /\ UnitSliceRead
    /\ Len(store) = 3
    /\ result.start = Some(1)
    /\ result.stop = Some(3)
    /\ store[2].dtype # store[3].dtype
    /\ result.err = "TypeError"
    /\ result.loads = 0

\* C30: reader[i:j] with unit step that selects no chunk sends no LoadChunks
\* operation and, on a reader that can tell its chunk count (open, or closed
\* with the inspection cached), returns a zero-length array.
C30_EmptySliceNoLoad ==
    (result.op = "slice" /\ result.step \in {NoInt, Some(1)}) =>
        LET lo == SliceLo(result.start, Len(store))
            hi == SliceHi(result.stop, Len(store))
        IN lo >= hi =>
              /\ result.loads = 0
              /\ result.err # None => (result.closed /\ result.err = "ValueError")
              /\ result.err = None => result.value = EmptyResult
              /\ ~result.closed => result.err = None

\* reader[2:1] over three chunks
C30_Witness ==
    /\ UnitSliceRead
    /\ Len(store) = 3
    /\ result.start = Some(2)
    /\ result.stop = Some(1)
    /\ result.err = None
    /\ result.value.data = <<>>
    /\ result.loads = 0

\* C34: after Reader.close() every reader[key], integer or slice, raises the
\* state error of a closed handle, whatever was cached before the close.
C34_ClosedReaderRaises ==
    (result.op \in {"item", "slice"} /\ result.closed) => result.err = "ValueError"

\* the last read was reader[start:stop:step] on an open reader with a step
\* other than 1
SteppedSliceRead ==
    /\ result.op = "slice"
    /\ ~result.closed
    /\ result.step \notin {NoInt, Some(1)}

\* C11 as stated: reader[i:j:s] with any step s other than 1 raises IndexError
\* and sends no LoadChunks, whatever chunks the slice selects.
C11_SteppedSliceIndexError ==
    SteppedSliceRead => (result.err = "IndexError" /\ result.loads = 0)

\* C11 amended: reader[i:j:s] with a step s other than 1 sends no LoadChunks
\* and raises IndexError when s is not zero, and the ValueError of
\* slice.indices when s is zero, whatever chunks the slice selects.
C11_SteppedSliceRejected ==
    SteppedSliceRead =>
        /\ result.loads = 0
        /\ result.err = IF result.step = Some(0) THEN "ValueError:zero_step" ELSE "IndexError"

\* a step of 2 over three chunks of mixed element types
C11_Witness ==
    /\ SteppedSliceRead
    /\ result.step = Some(2)
    /\ Len(store) = 3
    /\ store[1].dtype # store[3].dtype
    /\ result.start = NoInt /\ result.stop = NoInt
    /\ result.err = "IndexError"
    /\ result.loads = 0

-----------------------------------------------------------------------------
(* GroupedReader (stream/readers.py) *)

SeqRange(q) == {q[i] : i \in 1..Len(q)}

\* the loop `for i, chunk_info in enumerate(all_chunks)`: the chunk infos that
\* land in self._grouped_chunk_info[name], in chunk order (k counts from 1)
RECURSIVE grouped_chunk_info(_, _, _, _)
grouped_chunk_info(all_chunks, names, name, k) ==
    IF k > Len(all_chunks) THEN <<>>
    ELSE (IF names[((k - 1) % Len(names)) + 1] = name THEN <<all_chunks[k]>> ELSE <<>>)
         \o grouped_chunk_info(all_chunks, names, name, k + 1)

gr_is_multiple_Unchecked(total, num_names) == TRUE

\* len(all_chunks) % num_names == 0
gr_is_multiple(total, num_names) == total % num_names = 0

gr_counts_match_Unchecked(grouped, names) == TRUE

\* the loop over self.names[1:] comparing each count with the first name's
gr_counts_match(grouped, names) ==
    \A k \in 2..Len(names) : Len(grouped[names[k]]) = Len(grouped[names[1]])

\* GroupedReader.__init__ with _discover_and_validate_structure
grouped_reader_init(r, st, isClosed, names, ifail) ==
    IF names = <<>>
    THEN [gr |-> None, rd |-> r, err |-> "ValueError:empty_names", loads |-> 0]
    ELSE LET i == reader_inspection(r, st, isClosed, ifail)
         IN IF i.err # None
            THEN [gr |-> None, rd |-> i.rd, err |-> i.err, loads |-> 0]
            ELSE LET all_chunks == chunks(i.rd)
                     num_names == Len(names)
                     grouped == [nm \in SeqRange(names) |->
                                    grouped_chunk_info(all_chunks, names, nm, 1)]
                 IN IF ~gr_is_multiple(Len(all_chunks), num_names)
                    THEN [gr |-> None, rd |-> i.rd, err |-> "ValueError:not_a_multiple",
                          loads |-> 0]
                    ELSE IF ~gr_counts_match(grouped, names)
                    THEN [gr |-> None, rd |-> i.rd, err |-> "ValueError:count_mismatch",
                          loads |-> 0]
                    ELSE [gr |-> [names |-> names, grouped_chunk_info |-> grouped,
                                  num_groups |-> Len(grouped[names[1]])],
                          rd |-> i.rd, err |-> None, loads |-> 0]

\* the loop `for name in self.names` of __getitem__: reader[index] per name,
\* stopping at the first error
RECURSIVE gr_read_names(_, _, _, _, _, _)
gr_read_names(g, r, st, isClosed, key, k) ==
    IF k > Len(g.names) THEN [err |-> None, read |-> <<>>, loads |-> 0]
    ELSE LET name == g.names[k]
             physical_chunk_info == g.grouped_chunk_info[name][key + 1]
             x == reader_getitem_int(r, st, isClosed, physical_chunk_info.index, FALSE, FALSE)
         IN IF x.err # None
            THEN [err |-> x.err, read |-> <<>>, loads |-> x.loads]
            ELSE LET rest == gr_read_names(g, r, st, isClosed, key, k + 1)
                 IN [err |-> rest.err,
                     read |-> <<[name |-> name, data |-> x.value.data]>> \o rest.read,
                     loads |-> x.loads + rest.loads]

\* the dict built from (name, array) pairs assigned in order
DictOf(read) ==
    [nm \in DictKeys(read) |->
        LET last == CHOOSE i \in 1..Len(read) :
                        /\ read[i].name = nm
                        /\ \A j \in (i + 1)..Len(read) : read[j].name # nm
        IN read[last].data]

NoGroup == [nm \in {} |-> <<>>]

gr_getitem_int_NoWrap(g, r, st, isClosed, key) ==
    IF ~(0 <= key /\ key < g.num_groups)
    THEN [err |-> "IndexError", value |-> NoGroup, loads |-> 0]
    ELSE LET x == gr_read_names(g, r, st, isClosed, key, 1)
         IN IF x.err # None
            THEN [err |-> x.err, value |-> NoGroup, loads |-> x.loads]
            ELSE [err |-> None, value |-> DictOf(x.read), loads |-> x.loads]

\* GroupedReader.__getitem__(key: int)
gr_getitem_int(g, r, st, isClosed, key) ==
    LET k == IF key < 0 THEN key + g.num_groups ELSE key
    IN IF ~(0 <= k /\ k < g.num_groups)
       THEN [err |-> "IndexError", value |-> NoGroup, loads |-> 0]
       ELSE LET x == gr_read_names(g, r, st, isClosed, k, 1)
            IN IF x.err # None
               THEN [err |-> x.err, value |-> NoGroup, loads |-> x.loads]
               ELSE [err |-> None, value |-> DictOf(x.read), loads |-> x.loads]

\* range(start, stop, step) as the sequence of its items
RECURSIVE RangeSeq(_, _, _)
RangeSeq(start, stop, step) ==
    IF (step > 0 /\ start >= stop) \/ (step < 0 /\ start <= stop) THEN <<>>
    ELSE <<start>> \o RangeSeq(start + step, stop, step)

\* GroupedReader.__getitem__(key: slice): a generator over range(start, stop,
\* step).  The generator is its cursor: the indices it has not yet yielded.
gr_getitem_slice(g, start, stop, step) ==
    LET ind == SliceIndices(start, stop, step, g.num_groups)
    IN [pending |-> RangeSeq(ind[1], ind[2], ind[3])]

\* what next(s) gives once self[i] has returned or raised x: an exception
\* leaves the generator finished, a value leaves it suspended before the
\* following index
gen_yield(x, pending) ==
    IF x.err # None
    THEN [err |-> x.err, value |-> NoGroup, pending |-> <<>>]
    ELSE [err |-> None, value |-> x.value, pending |-> Tail(pending)]

\* next(s) on the generator: the generator expression evaluates self[i] for
\* its next index; an exhausted generator raises StopIteration
gen_next(g, r, st, isClosed, pending) ==
    IF pending = <<>>
    THEN [err |-> "StopIteration", value |-> NoGroup, pending |-> <<>>]
    ELSE gen_yield(gr_getitem_int(g, r, st, isClosed, Head(pending)), pending)

\* the list with v before the items of the rest of the iteration, unless the
\* rest raised
gen_prepend(v, rest) ==
    IF rest.err # None THEN rest ELSE [err |-> None, items |-> <<v>> \o rest.items]

\* list(s): next(s) until StopIteration; an exception of an item propagates
\* and no list is produced
RECURSIVE gen_drain(_, _, _, _, _)
RECURSIVE gen_collect(_, _, _, _, _)
gen_collect(n, g, r, st, isClosed) ==
    IF n.err = "StopIteration" THEN [err |-> None, items |-> <<>>]
    ELSE IF n.err # None THEN [err |-> n.err, items |-> <<>>]
    ELSE gen_prepend(n.value, gen_drain(g, r, st, isClosed, n.pending))

gen_drain(g, r, st, isClosed, pending) ==
    gen_collect(gen_next(g, r, st, isClosed, pending), g, r, st, isClosed)

-----------------------------------------------------------------------------
(* Scenario: a GroupedReader over a store written earlier *)

\* stores of 0 .. 2 * MaxChunks one-row chunks
GroupedStoreChoices ==
    {MkStore([i \in 1..n |-> <<"INT64", 1>>]) : n \in 0..(2 * MaxChunks)}

\* the names sequences given to the constructor (repeats allowed)
NamesChoices == UNION {[1..k -> Names] : k \in 0..MaxNames}

InitGReader ==
    /\ store \in GroupedStoreChoices
    /\ closed = FALSE
    /\ faults = 0
    /\ failures = 0
    /\ nextVal = 1
    /\ phase = "init"
    /\ result = [op |-> "init", err |-> None]
    /\ bac = None
    /\ gw = None
    /\ rd = Reader
    /\ gr = None
    /\ gen = None
    /\ passes = <<>>
    /\ appended = <<>>
    /\ wrote = <<>>
    /\ flushes = <<>>
    /\ probes = <<>>
    /\ inspected = <<>>

\* GroupedReader(reader, names)
GrConstruct ==
    /\ phase = "init"
    /\ \E names \in NamesChoices :
          LET c == grouped_reader_init(rd, store, closed, names, FALSE)
          IN /\ gr' = c.gr
             /\ rd' = c.rd
             /\ inspected' = IF names = <<>> THEN inspected
                            ELSE InspectLog(reader_inspection(rd, store, closed, FALSE))
             /\ result' = [op |-> "construct", names |-> names, err |-> c.err,
                           loads |-> c.loads]
             /\ phase' = IF c.err = None THEN "built" ELSE "failed"
    /\ UNCHANGED <<store, closed, faults, failures, nextVal, bac, gw, gen, passes,
                   appended, wrote, flushes, probes>>

\* grouped_reader[key] / read_group(key) with an integer key
GrGetItem ==
    /\ phase = "built"
    /\ \E key \in KeyRange :
          LET x == gr_getitem_int(gr, rd, store, closed, key)
          IN result' = [op |-> "group", key |-> key, err |-> x.err, value |-> x.value,
                        loads |-> x.loads]
    /\ UNCHANGED <<store, closed, faults, failures, nextVal, phase, bac, gw, rd, gr, gen,
                   passes, appended, wrote, flushes,
                 probes, inspected>>

\* s = grouped_reader[start:stop:step]
GrGetSlice ==
    /\ phase = "built"
    /\ \E start \in BoundChoices, stop \in BoundChoices, step \in StepChoices :
          /\ gen' = gr_getitem_slice(gr, start, stop, step)
          /\ result' = [op |-> "slice", start |-> start, stop |-> stop, step |-> step,
                        err |-> None]
    /\ phase' = "sliced"
    /\ passes' = <<>>
    /\ UNCHANGED <<store, closed, faults, failures, nextVal, bac, gw, rd, gr,
                   appended, wrote, flushes,
                 probes, inspected>>

\* next(s): one item of the iteration over the slice result; the caller's
\* code runs before the following item is read
GrNext ==
    /\ phase = "sliced"
    /\ LET n == gen_next(gr, rd, store, closed, gen.pending)
       IN /\ gen' = [pending |-> n.pending]
          /\ result' = [op |-> "next", err |-> n.err, value |-> n.value]
    /\ UNCHANGED <<store, closed, faults, failures, nextVal, phase, bac, gw, rd, gr, passes,
                   appended, wrote, flushes, probes, inspected>>

\* list(s): the rest of the iteration over the slice result in one call
GrIterate ==
    /\ phase = "sliced"
    /\ Len(passes) < MaxPasses
    /\ LET d == gen_drain(gr, rd, store, closed, gen.pending)
       IN /\ passes' = IF d.err = None THEN Append(passes, d.items) ELSE passes
          /\ result' = [op |-> "iterate", err |-> d.err]
    /\ gen' = [pending |-> <<>>]
    /\ UNCHANGED <<store, closed, faults, failures, nextVal, phase, bac, gw, rd, gr,
                   appended, wrote, flushes,
                 probes, inspected>>

\* grouped_reader.close(), also what leaving `with GroupedReader(...)` calls:
\* closes the underlying reader
GrClose ==
    /\ phase \in {"built", "sliced"}
    /\ closed' = lowlevel_close(closed)
    /\ result' = [op |-> "close", err |-> None]
    /\ UNCHANGED <<store, faults, failures, nextVal, phase, bac, gw, rd, gr, gen, passes,
                   appended, wrote, flushes, probes, inspected>>

NextGReader == GrConstruct \/ GrGetItem \/ GrGetSlice \/ GrNext \/ GrIterate \/ GrClose

SpecGReader == InitGReader /\ [][NextGReader]_vars

\* C5: constructing a GroupedReader over a total chunk count that is not a
\* multiple of len(names) fails with the 'not a multiple' ValueError, and no
\* chunk data has been read.
C5_NotAMultiple ==
    (result.op = "construct" /\ result.names # <<>>
        /\ Len(store) % Len(result.names) # 0) =>
        /\ result.err = "ValueError:not_a_multiple"
        /\ result.loads = 0
        /\ phase = "failed"

C5_Witness ==
    /\ result.op = "construct"
    /\ Len(store) = 3
    /\ result.names = <<"p", "v">>
    /\ result.err = "ValueError:not_a_multiple"

\* the number of chunks the position-modulo partition gives to a name
NameCount(names, name, total) ==
    Cardinality({i \in 0..(total - 1) : names[(i % Len(names)) + 1] = name})

\* one name's chunk count differs from another's
NameCountsDiffer(names, total) ==
    \E a, b \in SeqRange(names) : NameCount(names, a, total) # NameCount(names, b, total)

\* C6 as stated: constructing a GroupedReader over a store in which one name's
\* chunk count differs from another's fails with the chunk count mismatch error.
C6_MismatchError ==
    (result.op = "construct" /\ result.names # <<>>
        /\ NameCountsDiffer(result.names, Len(store))) =>
        result.err = "ValueError:count_mismatch"

\* C6 amended: such a construction fails with a ValueError: the 'not a
\* multiple' error when the total chunk count is not a multiple of len(names),
\* and the chunk count mismatch error otherwise.
C6_MismatchOrNotAMultiple ==
    (result.op = "construct" /\ result.names # <<>>
        /\ NameCountsDiffer(result.names, Len(store))) =>
        /\ phase = "failed"
        /\ result.err = IF Len(store) % Len(result.names) # 0
                        THEN "ValueError:not_a_multiple"
                        ELSE "ValueError:count_mismatch"

C6_Witness ==
    /\ result.op = "construct"
    /\ NameCountsDiffer(result.names, Len(store))
    /\ Len(store) = 3
    /\ result.names = <<"p", "v", "p">>
    /\ result.err = "ValueError:count_mismatch"

\* C7: the result of slicing a GroupedReader can be iterated more than once,
\* a second iteration yielding the same groups as the first.
C7_SliceReiterable ==
    Len(passes) >= 2 => passes[2] = passes[1]

\* the names of a sequence are pairwise distinct
DistinctNames(names) == Cardinality(SeqRange(names)) = Len(names)

\* C32: on a GroupedReader built over N distinct names with n groups, its
\* reader open, group(i) for -n <= i < n holds for the k-th name the chunk at physical
\* index g * N + k (k from 0), g = i or i + n, and any other i raises
\* IndexError.
C32_GroupIndexing ==
    (result.op = "group" /\ ~closed /\ DistinctNames(gr.names)) =>
        LET N == Len(gr.names)
            n == Len(store) \div N
            i == result.key
            g == IF i >= 0 THEN i ELSE i + n
        IN /\ gr.num_groups = n
           /\ (-n <= i /\ i < n) =>
                 /\ result.err = None
                 /\ DOMAIN result.value = SeqRange(gr.names)
                 /\ \A k \in 1..N : result.value[gr.names[k]] = store[g * N + k].data
           /\ ~(-n <= i /\ i < n) => (result.err = "IndexError" /\ result.loads = 0)

\* group(-1) of three groups over two names
C32_Witness ==
    /\ result.op = "group"
    /\ gr.names = <<"p", "v">>
    /\ Len(store) = 6
    /\ result.key = -1
    /\ result.err = None
    /\ result.value["p"] = store[5].data
    /\ result.value["v"] = store[6].data

\* C37: a GroupedReader built from a non-empty names sequence, repeated
\* names allowed, has num_groups * len(names) equal to the reader's chunk
\* count.
C37_GroupsTimesNames ==
    (result.op = "construct" /\ result.err = None) =>
        gr.num_groups * Len(gr.names) = nchunks(rd)

-----------------------------------------------------------------------------
(* Round trip: GroupedWriter, then GroupedReader over what it wrote *)

\* the name orders in which successful flushes wrote their chunks
WrittenOrders ==
    {FlushNames(flushes[i]) : i \in {j \in 1..Len(flushes) :
                                        flushes[j].ok /\ flushes[j].chunks # <<>>}}

\* the concatenation, in append order, of the arrays appended under a name
RECURSIVE AppendedData(_, _)
AppendedData(apps, name) ==
    IF apps = <<>> THEN <<>>
    ELSE LET data == Head(apps)
             k == CHOOSE i \in 1..Len(data) : data[i].name = name
         IN data[k].arr.data \o AppendedData(Tail(apps), name)

\* the concatenation over groups k .. num_groups-1 of a name's array, read
\* through a GroupedReader
RECURSIVE GroupsData(_, _, _, _, _)
GroupsData(g, r, st, name, k) ==
    IF k >= g.num_groups THEN <<>>
    ELSE gr_getitem_int(g, r, st, FALSE, k).value[name] \o GroupsData(g, r, st, name, k + 1)

\* a fresh Reader and GroupedReader(reader, names) over the store reconstruct
\* every name's appended data
Reconstructs(names) ==
    LET c == grouped_reader_init(Reader, store, FALSE, names, FALSE)
    IN /\ c.err = None
       /\ \A k \in 0..(c.gr.num_groups - 1) :
             gr_getitem_int(c.gr, c.rd, store, FALSE, k).err = None
       /\ \A nm \in SeqRange(names) :
             GroupsData(c.gr, c.rd, store, nm, 0) = AppendedData(appended, nm)

\* C4: after a GroupedWriter scope that exits without error, a GroupedReader
\* built with the names in the written order reconstructs, for every name, the
\* concatenation of that name's appended arrays, however many flushes occurred.
C4_GroupedRoundTrip ==
    (phase = "exited_ok" /\ failures = 0) =>
        \A names \in WrittenOrders : Reconstructs(names)

\* the round trip under the assumption that every flush wrote one name order
RoundTripGivenFixedOrder ==
    C2_FlushOrderFixed => C4_GroupedRoundTrip

-----------------------------------------------------------------------------
(* Scenario: a Writer on a fresh write-truncate store, used directly, and a
   Reader opened on the store once the writer is closed *)

\* an element type numpy has and the engine does not
UnsupportedDtype == "COMPLEX128"

WriterDtypes == Dtypes \cup {UnsupportedDtype}

\* row counts of the arrays given to the Writer
WriterRows == {2}

\* the codecs given to append_chunk
WriterCodecs == {"RAW", "ZSTD_COMPRESSED", "TEMPORAL_1D_SIMD_I64_DELTA"}

\* an array as MkArray builds it, or a non-contiguous view with the same rows
MkWriterArray(dtype, from, n, contiguous) ==
    [dtype |-> dtype, data |-> MkArray(dtype, from, n).data, c_contiguous |-> contiguous]

\* the ranks of the arrays given to append: rank 1, for which the Advisor
\* raises, and a rank above 3, for which it recommends a codec
WriterRanks == {1, MaxRank}

\* the same array with shape (n, 1, ..., 1) and rank ndim
MkWriterArrayOfRank(dtype, from, n, contiguous, ndim) ==
    [dtype |-> dtype, data |-> MkArray(dtype, from, n).data, c_contiguous |-> contiguous,
     ndim |-> ndim]

InitWriter ==
    /\ store = <<>>
    /\ closed = FALSE
    /\ faults = MaxFailures
    /\ failures = 0
    /\ nextVal = 1
    /\ phase = "open"
    /\ result = [op |-> "init", err |-> None]
    /\ bac = None
    /\ gw = None
    /\ rd = Reader
    /\ gr = None
    /\ gen = None
    /\ passes = <<>>
    /\ appended = <<>>
    /\ wrote = <<>>
    /\ flushes = <<>>
    /\ probes = <<>>
    /\ inspected = <<>>

\* what an append leaves in the state and reports
WriterAppended(op, data, r) ==
    /\ store' = r.store
    /\ appended' = IF r.err = None THEN Append(appended, data) ELSE appended
    /\ wrote' = IF r.err = None THEN Append(wrote, r.index) ELSE wrote
    /\ nextVal' = IF r.err = None THEN nextVal + rows(data) ELSE nextVal
    /\ failures' = IF IsEngineError(r.err) THEN failures + 1 ELSE failures
    /\ result' = [op |-> op, err |-> r.err, engine |-> r.engine, was_closed |-> closed,
                  before |-> Len(store), dtype |-> data.dtype,
                  c_contiguous |-> data.c_contiguous]

\* f.append(data)
WAppend ==
    /\ Len(appended) < MaxAppends
    /\ \E dtype \in WriterDtypes, n \in WriterRows, ok \in BOOLEAN, f \in FailChoices,
          ndim \in WriterRanks :
          LET data == MkWriterArrayOfRank(dtype, nextVal, n, ok, ndim)
          IN WriterAppended("append", data, writer_append(store, closed, data, f))
    /\ UNCHANGED <<closed, faults, phase, bac, gw, rd, flushes, grVars,
                 probes, inspected>>

\* f.append_chunk(data, codec)
WAppendChunk ==
    /\ Len(appended) < MaxAppends
    /\ \E dtype \in WriterDtypes, n \in WriterRows, ok \in BOOLEAN, f \in FailChoices,
          codec \in WriterCodecs :
          LET data == MkWriterArray(dtype, nextVal, n, ok)
          IN WriterAppended("append_chunk", data, append_chunk(store, closed, data, codec, f))
    /\ UNCHANGED <<closed, faults, phase, bac, gw, rd, flushes, grVars,
                 probes, inspected>>

\* f.flush()
WFlush ==
    /\ \E f \in FailChoices :
          LET r == writer_flush(closed, f)
          IN /\ failures' = IF IsEngineError(r.err) THEN failures + 1 ELSE failures
             /\ result' = [op |-> "flush", err |-> r.err, engine |-> r.engine,
                           was_closed |-> closed, before |-> Len(store)]
    /\ UNCHANGED <<store, closed, faults, nextVal, phase, bac, gw, rd, appended, wrote,
                   flushes, grVars,
                 probes, inspected>>

\* wrapper.execute(request) on the writer's LowLevelWrapper
WExecute ==
    /\ \E f \in FailChoices :
          LET r == execute(closed, f)
          IN /\ failures' = IF IsEngineError(r.err) THEN failures + 1 ELSE failures
             /\ result' = [op |-> "execute", err |-> r.err, engine |-> r.engine,
                           was_closed |-> closed, before |-> Len(store)]
    /\ UNCHANGED <<store, closed, faults, nextVal, phase, bac, gw, rd, appended, wrote,
                   flushes, grVars,
                 probes, inspected>>

\* f.close(), also what leaving `with cdd_open(...) as f` calls
WClose ==
    /\ \E f \in FailChoices :
          LET r == writer_close(closed, f)
          IN /\ closed' = r.closed
             /\ failures' = IF IsEngineError(r.err) THEN failures + 1 ELSE failures
             /\ result' = [op |-> "close", err |-> r.err, engine |-> r.engine,
                           was_closed |-> closed, before |-> Len(store)]
    /\ UNCHANGED <<store, faults, nextVal, phase, bac, gw, rd, appended, wrote, flushes, grVars,
                 probes, inspected>>

\* cdd_open(path, 'r') after the writer is closed, then reader[key]
WReadBack ==
    /\ closed
    /\ \E key \in 0..(MaxAppends - 1) :
          LET r == reader_getitem_int(Reader, store, FALSE, key, FALSE, FALSE)
          IN result' = [op |-> "readback", key |-> key, err |-> r.err, value |-> r.value]
    /\ UNCHANGED <<store, closed, faults, failures, nextVal, phase, bac, gw, rd, appended,
                   wrote, flushes, grVars,
                 probes, inspected>>

NextWriter == WAppend \/ WAppendChunk \/ WFlush \/ WExecute \/ WClose \/ WReadBack

SpecWriter == InitWriter /\ [][NextWriter]_vars

\* C12: on a write-truncate store the i-th successful append (0-based, through
\* append or append_chunk with any codec) returns chunk_index i, and a reader
\* opened after the writer is closed returns at index i an array equal, in
\* element type and rows, to the i-th appended array.
C12_AppendIndexAndReadBack ==
    /\ Len(wrote) = Len(appended)
    /\ \A i \in 1..Len(wrote) : wrote[i] = i - 1
    /\ (result.op = "readback" /\ result.key < Len(appended)) =>
          /\ result.err = None
          /\ result.value.dtype = appended[result.key + 1].dtype
          /\ result.value.data = appended[result.key + 1].data

\* the third of three appends read back: it was made through append (an array
\* of rank MaxRank, its codec chosen by the Advisor), the first through
\* append_chunk with another codec, and one append had failed at the engine
C12_Witness ==
    /\ result.op = "readback"
    /\ result.key = 2
    /\ Len(appended) = 3
    /\ failures = 1
    /\ wrote = <<0, 1, 2>>
    /\ Rank(appended[1]) = 1
    /\ Rank(appended[3]) = MaxRank
    /\ store[1].codec # store[3].codec
    /\ result.err = None
    /\ result.value.data = appended[3].data

\* C13: close() on an already-closed Writer is a no-op: it returns normally,
\* raises no error and sends nothing to the engine.
C13_CloseClosedIsNoOp ==
    (result.op = "close" /\ result.was_closed) =>
        (result.err = None /\ result.engine = 0)

\* C33: when a Writer's scope exits (CddFileBase.__exit__, which is close()
\* whether or not an error is in flight), the engine handle is released:
\* writer.closed is true afterwards, also when the Flush sent by close fails.
C33_ExitReleasesHandle ==
    result.op = "close" => closed

\* the last operation was append, append_chunk, flush or execute on a writer
\* whose handle had been closed
ClosedWriterOp ==
    /\ result.op \in {"append", "append_chunk", "flush", "execute"}
    /\ result.was_closed

IsValueError(err) == err \in {"ValueError", "ValueError:not_contiguous"}

\* the last operation was given an array that validation rejects
InvalidArrayGiven ==
    /\ result.op \in {"append", "append_chunk"}
    /\ (result.dtype \notin SupportedDtypes \/ ~result.c_contiguous)

\* C14: once the handle is closed, append, append_chunk, flush and execute
\* each fail with a ValueError and the engine is never invoked.
C14_ClosedOpsValueError ==
    ClosedWriterOp => (IsValueError(result.err) /\ result.engine = 0)

\* C15: append and append_chunk given an array of unsupported element type or
\* of non-contiguous layout fail locally (TypeError / ValueError) before any
\* engine call: nothing is sent to the engine and the chunk count is unchanged.
C15_InvalidArrayFailsLocally ==
    InvalidArrayGiven =>
        /\ result.err = IF result.dtype \notin SupportedDtypes THEN "TypeError"
                        ELSE "ValueError:not_contiguous"
        /\ result.engine = 0
        /\ Len(store) = result.before

C15_Witness ==
    /\ InvalidArrayGiven
    /\ result.op = "append_chunk"
    /\ ~result.was_closed
    /\ result.dtype \in SupportedDtypes
    /\ result.err = "ValueError:not_contiguous"
    /\ Len(store) = 2
    /\ result.before = 2

-----------------------------------------------------------------------------
(* Scenario: the Codec Advisor applied to one (rank, element type) *)

\* the members of the Codec enumeration
Codecs ==
    {"RAW", "ZSTD_COMPRESSED", "OKX_OB_SIMD_F16_AS_F32", "OKX_OB_SIMD_F32",
     "BINANCE_OB_SIMD_F16_AS_F32", "BINANCE_OB_SIMD_F32", "GENERIC_OB_SIMD_F16_AS_F32",
     "GENERIC_OB_SIMD_F32", "TEMPORAL_1D_SIMD_F16_XOR_SHUFFLE_AS_F32",
     "TEMPORAL_1D_SIMD_F32_XOR_SHUFFLE", "TEMPORAL_1D_SIMD_I64_XOR",
     "TEMPORAL_1D_SIMD_I64_DELTA", "TEMPORAL_2D_SIMD_F16_AS_F32", "TEMPORAL_2D_SIMD_F32",
     "TEMPORAL_2D_SIMD_I64"}

\* the element types of the arrays handed to the Advisor
AdvisorDtypes == SupportedDtypes \cup {UnsupportedDtype}

InitAdvisor ==
    /\ store = <<>>
    /\ closed = FALSE
    /\ faults = 0
    /\ failures = 0
    /\ nextVal = 1
    /\ phase = "asking"
    /\ \E ndim \in 0..MaxRank, dtype \in AdvisorDtypes :
          result = [op |-> "array", ndim |-> ndim, dtype |-> dtype]
    /\ bac = None
    /\ gw = None
    /\ rd = None
    /\ gr = None
    /\ gen = None
    /\ passes = <<>>
    /\ appended = <<>>
    /\ wrote = <<>>
    /\ flushes = <<>>
    /\ probes = <<>>
    /\ inspected = <<>>

\* codec_selector.recommend_codec(data), called once or again on the same array
Recommend ==
    /\ phase \in {"asking", "asked"}
    /\ phase' = IF phase = "asking" THEN "asked" ELSE "asked_again"
    /\ result' = [op |-> "recommend", ndim |-> result.ndim, dtype |-> result.dtype,
                  codec |-> recommend(result.ndim, result.dtype),
                  previous |-> IF phase = "asking" THEN None ELSE result.codec]
    /\ UNCHANGED <<store, closed, faults, failures, nextVal, bac, gw, rd, appended, wrote,
                   flushes, grVars,
                 probes, inspected>>

NextAdvisor == Recommend

SpecAdvisor == InitAdvisor /\ [][NextAdvisor]_vars

\* C16: recommend(rank, element_type) is total and deterministic, with exactly
\* this result: (3, float32) GENERIC_OB_SIMD_F32; (2, float32)
\* TEMPORAL_2D_SIMD_F32; (2, int64) TEMPORAL_2D_SIMD_I64; (1, float32)
\* TEMPORAL_1D_SIMD_F32_XOR_SHUFFLE; (1, int64) TEMPORAL_1D_SIMD_I64_DELTA;
\* every other (rank, element_type) ZSTD_COMPRESSED.
C16_AdvisorTable ==
    result.op = "recommend" =>
        LET k == <<result.ndim, result.dtype>>
        IN /\ result.codec \in Codecs
           /\ result.previous \in {None, result.codec}
           /\ (k = <<3, "FLOAT32">>) => result.codec = "GENERIC_OB_SIMD_F32"
           /\ (k = <<2, "FLOAT32">>) => result.codec = "TEMPORAL_2D_SIMD_F32"
           /\ (k = <<2, "INT64">>) => result.codec = "TEMPORAL_2D_SIMD_I64"
           /\ (k = <<1, "FLOAT32">>) => result.codec = "TEMPORAL_1D_SIMD_F32_XOR_SHUFFLE"
           /\ (k = <<1, "INT64">>) => result.codec = "TEMPORAL_1D_SIMD_I64_DELTA"
           /\ (k \notin {<<3, "FLOAT32">>, <<2, "FLOAT32">>, <<2, "INT64">>,
                         <<1, "FLOAT32">>, <<1, "INT64">>}) =>
                 result.codec = "ZSTD_COMPRESSED"

-----------------------------------------------------------------------------
(* Scenario: the scope (with-block) of one stream writer, a BufferedAutoChunker
   or a GroupedWriter, left with or without an exception in flight *)

\* the stream writer this scenario does not have
NoObject == <<>>

InitScope ==
    /\ store = <<>>
    /\ closed = FALSE
    /\ faults = 0
    /\ failures = 0
    /\ nextVal = 1
    /\ phase = "open"
    /\ result = [op |-> "init", err |-> None]
    /\ \/ /\ \E cfg \in WriterConfigs : bac = BufferedAutoChunker(cfg[1], cfg[2], cfg[3], cfg[4])
          /\ gw = NoObject
       \/ /\ \E cfg \in GroupedConfigs : gw = GroupedWriter(cfg[1], cfg[2], cfg[3], cfg[4])
          /\ bac = NoObject
    /\ rd = None
    /\ gr = None
    /\ gen = None
    /\ passes = <<>>
    /\ appended = <<>>
    /\ wrote = <<>>
    /\ flushes = <<>>
    /\ probes = <<>>
    /\ inspected = <<>>

ScopeBacAppend == bac # NoObject /\ BacAppend

ScopeBacFlush == bac # NoObject /\ BacFlush

ScopeGwAppend == gw # NoObject /\ GwAppend

ScopeGwFlush == gw # NoObject /\ GwFlush

\* the number of chunks a flush of the writer would hand to the store
PendingChunks ==
    IF bac # NoObject
    THEN (IF bac.buffer = <<>> THEN 0 ELSE 1)
    ELSE (IF gw.total_buffered_bytes = 0 THEN 0
          ELSE Cardinality({i \in 1..Len(gw.buffers) : gw.buffers[i].list # <<>>}))

\* what leaving the with-block reports: the flush made or not, and the store
\* and buffer as they were on entry to __exit__
ExitResult(in_flight, err, flushed) ==
    [op |-> "exit", in_flight |-> in_flight, err |-> err, flushed |-> flushed,
     before |-> Len(store), pending |-> PendingChunks]

\* leaving the with-block of the BufferedAutoChunker: __exit__
ScopeBacExit ==
    /\ bac # NoObject
    /\ phase = "open"
    /\ \E in_flight \in BOOLEAN, f \in FailChoices :
          LET r == bac_exit(bac, store, closed, in_flight, f)
          IN /\ bac' = r.bac
             /\ store' = r.store
             /\ wrote' = wrote \o r.wrote
             /\ failures' = IF IsEngineError(r.err) THEN failures + 1 ELSE failures
             /\ result' = ExitResult(in_flight, r.err, r.flushed)
             /\ phase' = IF r.err = None /\ ~in_flight THEN "exited_ok" ELSE "exited_err"
    /\ UNCHANGED <<closed, faults, appended, nextVal, gw, flushes, rd, grVars,
                 probes, inspected>>

\* leaving the with-block of the GroupedWriter: __exit__
ScopeGwExit ==
    /\ gw # NoObject
    /\ phase = "open"
    /\ \E in_flight \in BOOLEAN, fa \in FailAtChoices :
          LET r == gw_exit(gw, store, closed, in_flight, fa)
          IN /\ gw' = r.gw
             /\ store' = r.store
             /\ flushes' = FlushLog(r)
             /\ failures' = IF IsEngineError(r.err) THEN failures + 1 ELSE failures
             /\ result' = ExitResult(in_flight, r.err, r.flushed)
             /\ phase' = IF r.err = None /\ ~in_flight THEN "exited_ok" ELSE "exited_err"
    /\ UNCHANGED <<closed, faults, nextVal, bac, appended, wrote, rd, grVars,
                 probes, inspected>>

NextScope ==
    \/ ScopeBacAppend \/ ScopeBacFlush \/ ScopeBacExit
    \/ ScopeGwAppend \/ ScopeGwFlush \/ ScopeGwExit
    \/ WriterClose

SpecScope == InitScope /\ [][NextScope]_vars

\* C17: when the scope of a BufferedAutoChunker or GroupedWriter exits, a
\* final flush is performed exactly when no error is in flight; when the scope
\* exits with an error, no flush is attempted and no chunk is written at exit.
C17_ExitFlushesUnlessError ==
    result.op = "exit" =>
        /\ result.flushed = ~result.in_flight
        /\ result.in_flight => Len(store) = result.before
        /\ (~result.in_flight /\ result.err = None) =>
              /\ Len(store) = result.before + result.pending
              /\ PendingChunks = 0

\* an exit without error that flushed a buffered group of two names
C17_Witness ==
    /\ result.op = "exit"
    /\ ~result.in_flight
    /\ result.flushed
    /\ result.err = None
    /\ result.pending = 2
    /\ Len(store) = result.before + 2

\* an exit with an error in flight that left buffered data unwritten
C17_WitnessError ==
    /\ result.op = "exit"
    /\ result.in_flight
    /\ ~result.flushed
    /\ PendingChunks = 1
    /\ Len(store) = result.before

-----------------------------------------------------------------------------
(* Scenario: GroupedWriters given a member of Codec for their names *)

\* codecs={name: codec} for the names of `given`, for each member of Codec
CodecConfigs == {[n \in given |-> c] : given \in {{"p"}, {"p", "v"}}, c \in Codecs}

InitCodecs ==
    /\ store = <<>>
    /\ closed = FALSE
    /\ faults = 0
    /\ failures = 0
    /\ nextVal = 1
    /\ phase = "open"
    /\ result = [op |-> "init", err |-> None]
    /\ bac = None
    /\ \E codecs \in CodecConfigs : gw = GroupedWriter(16, codecs, <<1, 4>>, 2)
    /\ rd = None
    /\ gr = None
    /\ gen = None
    /\ passes = <<>>
    /\ appended = <<>>
    /\ wrote = <<>>
    /\ flushes = <<>>
    /\ probes = <<>>
    /\ inspected = <<>>

\* grouper.append(data) with dicts of one key order and equal row counts;
\* the probe store reports the samples incompressible
CodecsAppend ==
    /\ phase = "open"
    /\ Len(appended) < MaxAppends
    /\ \E order \in {<<"p">>, <<"p", "v">>}, n \in {1, 2} :
          LET data == MkGroup(order, [i \in 1..Len(order) |-> n], nextVal)
              probing == gw_probes(gw, closed, data)
              p == gw_probe(store, gw, data, 0, FALSE)
              r == gw_append(gw, IF probing THEN p.primary ELSE store, closed, data,
                             [fail |-> FALSE, compressed_size |-> SampleOriginal(data)], 0)
          IN /\ gw' = r.gw
             /\ store' = r.store
             /\ probing => Len(probes) < MaxProbes
             /\ probes' = IF probing THEN Append(probes, p) ELSE probes
             /\ flushes' = FlushLog(r)
             /\ appended' = IF r.buffered THEN Append(appended, data) ELSE appended
             /\ nextVal' = IF r.buffered THEN nextVal + n * Len(order) ELSE nextVal
             /\ result' = [op |-> "append", err |-> r.err, keys |-> DictKeys(data),
                           chosen |-> gw_append_chosen(gw, store, closed, data, 0, 0, r)]
    /\ UNCHANGED <<closed, faults, failures, phase, bac, wrote, rd, grVars, inspected>>

NextCodecs == CodecsAppend \/ GwFlush \/ GwExitOk \/ WriterClose

SpecCodecs == InitCodecs /\ [][NextCodecs]_vars

\* the names for which the last call evaluated `self.codecs.get(name) or ...`
\* (writers.py 167 and 221)
NamesInvolved ==
    IF result.op \in {"append", "flush", "exit"} THEN result.chosen ELSE {}

\* C20: every chunk written for a name that has a codec in `codecs` carries
\* that codec, whichever member of Codec it is, and the Advisor is asked (its
\* error can only surface) when some name involved has no codec in `codecs`.
C20_GivenCodecUsed ==
    /\ \A i \in 1..Len(flushes) : \A k \in 1..Len(flushes[i].chunks) :
          LET ch == flushes[i].chunks[k]
          IN ch.name \in DOMAIN gw.codecs => store[ch.index + 1].codec = gw.codecs[ch.name]
    /\ result.err = ClassPatternError => ~(NamesInvolved \subseteq DOMAIN gw.codecs)

-----------------------------------------------------------------------------
(* Scenario: the lifetime of one Reader whose accessors and indexing are used
   any number of times, in any order, over a file that another handle may
   extend meanwhile; the engine may reject an Inspect or a LoadChunks *)

InspectStores ==
    {MkStore(sp) : sp \in {<<>>, <<<<"INT64", 2>>>>, <<<<"INT64", 2>>, <<"FLOAT32", 2>>>>}}

Accessors == {"nchunks", "chunks", "file_header", "user_metadata"}

\* what the accessor returns on a reader whose inspection is cached
AccessorValue(name, r) ==
    CASE name = "nchunks" -> <<nchunks(r)>>
      [] name = "chunks" -> chunks(r)
      [] name = "file_header" -> <<file_header(r)>>
      [] OTHER -> user_metadata(r)

InitInspect ==
    /\ store \in InspectStores
    /\ closed = FALSE
    /\ faults = MaxFailures
    /\ failures = 0
    /\ nextVal = 1
    /\ phase = "reading"
    /\ result = [op |-> "init", err |-> None]
    /\ bac = None
    /\ gw = None
    /\ rd = Reader
    /\ gr = None
    /\ gen = None
    /\ passes = <<>>
    /\ appended = <<>>
    /\ wrote = <<>>
    /\ flushes = <<>>
    /\ probes = <<>>
    /\ inspected = <<>>

\* reader.nchunks, reader.chunks, reader.file_header or reader.user_metadata
ReaderAccess ==
    /\ phase = "reading"
    /\ \E name \in Accessors, f \in FailChoices :
          LET i == reader_inspection(rd, store, closed, f)
          IN /\ rd' = i.rd
             /\ inspected' = InspectLog(i)
             /\ failures' = IF IsEngineError(i.err) THEN failures + 1 ELSE failures
             /\ result' = [op |-> name, err |-> i.err,
                           value |-> IF i.err = None THEN AccessorValue(name, i.rd) ELSE <<>>]
    /\ UNCHANGED <<store, closed, faults, nextVal, phase, bac, gw, appended, wrote, flushes,
                   grVars, probes>>

\* reader[key] with an integer key
ReaderIndex ==
    /\ phase = "reading"
    /\ \E key \in 0..(MaxChunks - 1), f1 \in FailChoices, f2 \in FailChoices :
          LET r == reader_getitem_int(rd, store, closed, key, f1, f2)
          IN /\ rd' = r.rd
             /\ inspected' = InspectLog(reader_inspection(rd, store, closed, f1))
             /\ failures' = IF IsEngineError(r.err) THEN failures + 1 ELSE failures
             /\ result' = [op |-> "item", key |-> key, err |-> r.err, value |-> r.value]
    /\ UNCHANGED <<store, closed, faults, nextVal, phase, bac, gw, appended, wrote, flushes,
                   grVars, probes>>

\* a Writer opened on the same file in mode 'a' appends a chunk
StoreGrows ==
    /\ phase = "reading"
    /\ Len(store) < MaxChunks
    /\ store' = append_chunk(store, FALSE, MkArray("INT64", 100 + Len(store), 1), "RAW",
                             FALSE).store
    /\ UNCHANGED <<closed, faults, failures, nextVal, phase, result, bac, gw, rd, appended,
                   wrote, flushes, grVars, probes, inspected>>

NextInspect == ReaderAccess \/ ReaderIndex \/ StoreGrows \/ ReaderClose

SpecInspect == InitInspect /\ [][NextInspect]_vars

\* C21: over one Reader's lifetime at most one Inspect operation succeeds,
\* whatever accessors and indexing are used and in whatever order, and every
\* accessor returns what that one result holds, and indexing resolves the key
\* against its chunk count, also after the file has grown.
C21_InspectOnceAndCached ==
    /\ Len(inspected) <= 1
    /\ rd.inspection # <<>> => rd.inspection = inspected
    /\ (result.op \in Accessors /\ result.err = None) =>
          /\ Len(inspected) = 1
          /\ result.value = AccessorValue(result.op, [inspection |-> inspected])
    /\ (result.op = "item" /\ result.err \in {None, "IndexError"}) =>
          /\ Len(inspected) = 1
          /\ result.err = "IndexError" <=> result.key >= inspected[1].total_chunks

\* an accessor answered from the cache after an Inspect had failed, one had
\* succeeded and the file had grown since
C21_Witness ==
    /\ result.op = "nchunks"
    /\ result.err = None
    /\ failures = 1
    /\ Len(inspected) = 1
    /\ result.value = <<1>>
    /\ Len(store) = 3

-----------------------------------------------------------------------------
(* Scenario: the calibration of one BufferedAutoChunker or GroupedWriter from
   what its probe store reports *)

CalTargets == {8, 9}
CalRatios == {<<1, 4>>, <<1, 2>>}
CalMultipliers == {1, 3}

\* row counts of the calibrating arrays; compressed sizes the probe reports
CalRows == {1, 7}
CalGroupRows == {0, 1}
CalCompressed == {1, 9, 18, 36, 48}

InitCalibrate ==
    /\ store = <<>>
    /\ closed = FALSE
    /\ faults = 0
    /\ failures = 0
    /\ nextVal = 1
    /\ phase = "uncalibrated"
    /\ result = [op |-> "init", err |-> None]
    /\ \E t \in CalTargets, m \in CalRatios, k \in CalMultipliers :
          \/ /\ bac = BufferedAutoChunker(t, "ZSTD_COMPRESSED", m, k)
             /\ gw = NoObject
          \/ /\ gw = GroupedWriter(t, [n \in Names |-> "ZSTD_COMPRESSED"], m, k)
             /\ bac = NoObject
    /\ rd = None
    /\ gr = None
    /\ gen = None
    /\ passes = <<>>
    /\ appended = <<>>
    /\ wrote = <<>>
    /\ flushes = <<>>
    /\ probes = <<>>
    /\ inspected = <<>>

\* BufferedAutoChunker._estimate_compression_ratio(data): the sample is written
\* to a probe store of its own, which reports compressed_size c for it
BacCalibrate ==
    /\ phase = "uncalibrated"
    /\ bac # NoObject
    /\ \E dtype \in Dtypes, n \in CalRows, c \in CalCompressed :
          LET data == MkArray(dtype, 1, n)
              probing == bac.compression_ratio = None /\ rows(data) # 0
              p == bac_probe(store, ProbeSample(data), bac_probe_codec(bac, ProbeSample(data)),
                             FALSE, FALSE)
          IN /\ bac' = bac_estimate(bac, data, c)
             /\ probes' = IF probing THEN Append(probes, p) ELSE probes
             /\ result' = [op |-> "calibrate", err |-> None,
                           original |-> nbytes(ProbeSample(data)), compressed |-> c]
    /\ phase' = "calibrated"
    /\ UNCHANGED <<store, closed, faults, failures, nextVal, gw, rd, appended, wrote, flushes,
                   grVars, inspected>>

\* GroupedWriter._estimate_uncompressed_chunk_size(data): the samples of the
\* arrays with rows are written to a probe store of its own, which reports
\* compressed sizes that sum to c
GwCalibrate ==
    /\ phase = "uncalibrated"
    /\ gw # NoObject
    /\ \E rs \in [1..2 -> CalGroupRows], c \in CalCompressed :
          LET data == MkGroup(<<"p", "v">>, rs, 1)
              c_total == IF SampleOriginal(data) = 0 THEN 0 ELSE c
              probing == gw.array_names = NoNames
              p == gw_probe(store, gw, data, 0, FALSE)
          IN /\ gw' = gw_estimate(gw, data, c_total)
             /\ probes' = IF probing THEN Append(probes, p) ELSE probes
             /\ result' = [op |-> "calibrate", err |-> None,
                           original |-> SampleOriginal(data), compressed |-> c_total]
    /\ phase' = "calibrated"
    /\ UNCHANGED <<store, closed, faults, failures, nextVal, bac, rd, appended, wrote, flushes,
                   grVars, inspected>>

NextCalibrate == BacCalibrate \/ GwCalibrate

SpecCalibrate == InitCalibrate /\ [][NextCalibrate]_vars

\* the writer of the scenario
CalWriter == IF bac # NoObject THEN bac ELSE gw

\* r = max(min_compression_ratio, c / o) when o > 0, and 1/2 when o = 0
ClaimedRatio ==
    IF result.original > 0
    THEN MaxRatio(CalWriter.min_compression_ratio, <<result.compressed, result.original>>)
    ELSE <<1, 2>>

\* C22: after calibration on samples of total original size o and compressed
\* size c, with r as above, the threshold equals
\* min(floor(target_chunk_bytes / r), target_chunk_bytes * max_buffer_multiplier).
C22_ThresholdFormula ==
    result.op = "calibrate" =>
        CalWriter.uncompressed_chunk_size =
            Min(ExactFloor(CalWriter.target_chunk_bytes, ClaimedRatio),
                CalWriter.max_buffer_bytes)

\* C23: for every probe outcome the threshold lies between target_chunk_bytes
\* and target_chunk_bytes * max_buffer_multiplier.
C23_ThresholdBounds ==
    result.op = "calibrate" =>
        /\ CalWriter.target_chunk_bytes <= CalWriter.uncompressed_chunk_size
        /\ CalWriter.uncompressed_chunk_size <= CalWriter.max_buffer_bytes

-----------------------------------------------------------------------------
(* Scenario: the calibration probes over the lifetime of one stream writer,
   a BufferedAutoChunker or a GroupedWriter, whose probe store and primary
   store may each reject an operation *)

ProbeChunkerConfigs == {<<8, "ZSTD_COMPRESSED", <<1, 4>>, 2>>}

ProbeGroupedConfigs ==
    {<<8, [n \in Names |-> "ZSTD_COMPRESSED"], <<1, 4>>, 2>>,
     <<16, [n \in {"p"} |-> "RAW"], <<1, 4>>, 2>>}

InitProbe ==
    /\ store = <<>>
    /\ closed = FALSE
    /\ faults = MaxFailures
    /\ failures = 0
    /\ nextVal = 1
    /\ phase = "open"
    /\ result = [op |-> "init", err |-> None]
    /\ \/ /\ \E cfg \in ProbeChunkerConfigs :
                bac = BufferedAutoChunker(cfg[1], cfg[2], cfg[3], cfg[4])
          /\ gw = NoObject
       \/ /\ \E cfg \in ProbeGroupedConfigs :
                gw = GroupedWriter(cfg[1], cfg[2], cfg[3], cfg[4])
          /\ bac = NoObject
    /\ rd = None
    /\ gr = None
    /\ gen = None
    /\ passes = <<>>
    /\ appended = <<>>
    /\ wrote = <<>>
    /\ flushes = <<>>
    /\ probes = <<>>
    /\ inspected = <<>>

\* buffer.append(data) with an array of no row or one row; the probe store
\* reports the sample incompressible
ProbeBacAppend ==
    /\ bac # NoObject
    /\ phase = "open"
    /\ Len(appended) < MaxAppends
    /\ \E n \in {0, 1}, pf \in FailChoices, cf \in FailChoices, f \in FailChoices :
          LET data == MkArray("INT64", nextVal, n)
              probing == bac_probes(bac, closed, data)
              p == bac_probe(store, ProbeSample(data), bac_probe_codec(bac, ProbeSample(data)),
                             pf, cf)
              r == bac_append(bac, IF probing THEN p.primary ELSE store, closed, data,
                              [fail |-> probing /\ p.err # None,
                               compressed_size |-> nbytes(data)], f)
          IN /\ bac' = r.bac
             /\ store' = r.store
             /\ probing => Len(probes) < MaxProbes
             /\ probes' = IF probing THEN Append(probes, p) ELSE probes
             /\ wrote' = wrote \o r.wrote
             /\ appended' = IF r.buffered THEN Append(appended, data) ELSE appended
             /\ nextVal' = IF r.buffered THEN nextVal + n ELSE nextVal
             /\ failures' = IF IsEngineError(r.err) THEN failures + 1 ELSE failures
             /\ result' = [op |-> "append", err |-> r.err, probed |-> probing]
    /\ UNCHANGED <<closed, faults, phase, gw, flushes, rd, grVars, inspected>>

\* grouper.append(data) with the empty dict or a dict of one key order whose
\* arrays have no row or one row each; the probe store reports the samples
\* incompressible
ProbeGwAppend ==
    /\ gw # NoObject
    /\ phase = "open"
    /\ Len(appended) < MaxAppends
    /\ \E order \in {<<>>, <<"p", "v">>}, n \in {0, 1}, pfa \in FailAtChoices,
          cf \in FailChoices, fa \in FailAtChoices :
          LET data == MkGroup(order, [i \in 1..Len(order) |-> n], nextVal)
              probing == gw_probes(gw, closed, data)
              p == gw_probe(store, gw, data, pfa, cf)
              r == gw_append(gw, IF probing THEN p.primary ELSE store, closed, data,
                             [fail |-> probing /\ IsEngineError(p.err),
                              compressed_size |-> SampleOriginal(data)], fa)
          IN /\ gw' = r.gw
             /\ store' = r.store
             /\ probing => Len(probes) < MaxProbes
             /\ probes' = IF probing THEN Append(probes, p) ELSE probes
             /\ flushes' = FlushLog(r)
             /\ appended' = IF r.buffered THEN Append(appended, data) ELSE appended
             /\ nextVal' = IF r.buffered THEN nextVal + Len(order) * n ELSE nextVal
             /\ failures' = IF IsEngineError(r.err) THEN failures + 1 ELSE failures
             /\ result' = [op |-> "append", err |-> r.err, probed |-> probing]
    /\ UNCHANGED <<closed, faults, phase, bac, wrote, rd, grVars, inspected>>

NextProbe ==
    \/ ProbeBacAppend \/ ScopeBacFlush
    \/ ProbeGwAppend \/ ScopeGwFlush
    \/ WriterClose

SpecProbe == InitProbe /\ [][NextProbe]_vars

\* the writer is calibrated and this step leaves its threshold as it was
ThresholdKept ==
    /\ (bac # NoObject /\ bac.compression_ratio # None) =>
          bac'.uncompressed_chunk_size = bac.uncompressed_chunk_size
    /\ (gw # NoObject /\ gw.array_names # NoNames) =>
          gw'.uncompressed_chunk_size = gw.uncompressed_chunk_size

\* C24: over any sequence of appends to one writer the calibration probe is
\* run at most once, and once calibration has set the threshold it never
\* changes again.
C24_ProbeOnce == [](Len(probes) <= 1) /\ [][ThresholdKept]_vars

\* the number of chunks the writer's flushes stored
RECURSIVE FlushedChunks(_)
FlushedChunks(fs) == IF fs = <<>> THEN 0 ELSE Len(Head(fs).chunks) + FlushedChunks(Tail(fs))

\* C25: a probe leaves the primary store as it found it, whether it succeeds
\* or fails: same chunk count, same contents, and the primary store never
\* holds a chunk other than those the writer's flushes stored.
C25_ProbeLeavesPrimary ==
    /\ \A i \in 1..Len(probes) : probes[i].primary = probes[i].before
    /\ Len(store) = Len(wrote) + FlushedChunks(flushes)

\* a probe that failed and a later one that succeeded, with chunks in the
\* primary store
C25_Witness ==
    /\ Len(probes) = 2
    /\ probes[1].err # None
    /\ probes[2].err = None
    /\ probes[2].stored > 0
    /\ Len(probes[2].before) = 0
    /\ Len(store) > 0

\* C26: the probe store is closed when calibration returns or raises, on
\* every path, also when the sample write or the probe's flush fails.
C26_ProbeStoreClosed == \A i \in 1..Len(probes) : probes[i].closed

\* C27: the probe store is opened with a Memory backend configuration, not a
\* File backend, in write-truncate mode.
C27_ProbeInMemory ==
    \A i \in 1..Len(probes) :
        /\ probes[i].config.type = "Memory"
        /\ probes[i].config.mode = "WriteTruncate"

-----------------------------------------------------------------------------
(* Scenario: the codec of a BufferedAutoChunker's chunks *)

\* (target_chunk_bytes, codec, min_compression_ratio, max_buffer_multiplier):
\* two explicit codecs, neither the Advisor's default, and no codec
OneCodecConfigs ==
    {<<8, "TEMPORAL_1D_SIMD_I64_DELTA", <<1, 4>>, 2>>, <<8, "RAW", <<1, 4>>, 2>>,
     <<8, None, <<1, 4>>, 2>>}

\* the ranks of the appended arrays: one the Advisor has a case for, and one
\* it has none for
OneCodecRanks == {1, MaxRank}

InitOneCodec ==
    /\ store = <<>>
    /\ closed = FALSE
    /\ faults = 0
    /\ failures = 0
    /\ nextVal = 1
    /\ phase = "open"
    /\ result = [op |-> "init", err |-> None]
    /\ \E cfg \in OneCodecConfigs : bac = BufferedAutoChunker(cfg[1], cfg[2], cfg[3], cfg[4])
    /\ gw = None
    /\ rd = None
    /\ gr = None
    /\ gen = None
    /\ passes = <<>>
    /\ appended = <<>>
    /\ wrote = <<>>
    /\ flushes = <<>>
    /\ probes = <<>>
    /\ inspected = <<>>

\* buffer.append(data) with an array of rank 1 or MaxRank that np.concatenate
\* accepts beside the buffered ones; the probe store reports the sample
\* incompressible
OneCodecAppend ==
    /\ phase = "open"
    /\ Len(appended) < MaxAppends
    /\ \E dtype \in Dtypes, n \in RowChoices, ndim \in OneCodecRanks :
          LET data == MkArrayOfRank(dtype, nextVal, n, ndim)
              probing == bac_probes(bac, closed, data)
              p == bac_probe(store, ProbeSample(data), bac_probe_codec(bac, ProbeSample(data)),
                             FALSE, FALSE)
              r == bac_append(bac, IF probing THEN p.primary ELSE store, closed, data,
                              [fail |-> FALSE, compressed_size |-> nbytes(ProbeSample(data))],
                              FALSE)
          IN /\ bac.buffer # <<>> => Rank(bac.buffer[1]) = ndim
             /\ bac' = r.bac
             /\ store' = r.store
             /\ probing => Len(probes) < MaxProbes
             /\ probes' = IF probing THEN Append(probes, p) ELSE probes
             /\ wrote' = wrote \o r.wrote
             /\ appended' = IF r.buffered THEN Append(appended, data) ELSE appended
             /\ nextVal' = IF r.buffered THEN nextVal + n ELSE nextVal
             /\ result' = [op |-> "append", err |-> r.err, data |-> data]
    /\ UNCHANGED <<closed, faults, failures, phase, gw, flushes, rd, grVars, inspected>>

NextOneCodec == OneCodecAppend \/ BacFlush \/ BacExitOk \/ WriterClose

SpecOneCodec == InitOneCodec /\ [][NextOneCodec]_vars

\* a step keeps the writer's codec once it has one, and gives it one only
\* in the append of the first array, as the Advisor's recommendation for it
CodecKept ==
    /\ bac.codec # None => bac'.codec = bac.codec
    /\ (bac.codec = None /\ bac'.codec # None) =>
          /\ appended = <<>>
          /\ result'.op = "append"
          /\ appended' = <<result'.data>>
          /\ bac'.codec = recommend_codec(result'.data)

\* C28: every chunk a BufferedAutoChunker has written carries the writer's
\* one codec: the configured codec if there is one, else the Advisor's
\* recommendation for the first appended array, chosen once and never
\* reselected by a later append or flush.
C28_SingleCodec ==
    /\ [](\A i \in 1..Len(store) : store[i].codec = bac.codec)
    /\ [][CodecKept]_vars

\* two chunks written with the codec the Advisor chose (no configuration of
\* the scenario names ZSTD_COMPRESSED), the second from arrays of another
\* element type than the first
C28_Witness ==
    /\ Len(store) = 2
    /\ store[1].codec = "ZSTD_COMPRESSED"
    /\ store[2].codec = "ZSTD_COMPRESSED"
    /\ store[1].dtype # store[2].dtype

-----------------------------------------------------------------------------
(* Scenario: the number of chunks of one stream through a BufferedAutoChunker *)

\* (target_chunk_bytes, codec, min_compression_ratio, max_buffer_multiplier)
CountConfigs == {<<8, "ZSTD_COMPRESSED", <<1, 4>>, 2>>, <<16, "ZSTD_COMPRESSED", <<1, 2>>, 1>>}

InitCount ==
    /\ store = <<>>
    /\ closed = FALSE
    /\ faults = 0
    /\ failures = 0
    /\ nextVal = 1
    /\ phase = "open"
    /\ result = [op |-> "init", err |-> None]
    /\ \E cfg \in CountConfigs : bac = BufferedAutoChunker(cfg[1], cfg[2], cfg[3], cfg[4])
    /\ gw = None
    /\ rd = None
    /\ gr = None
    /\ gen = None
    /\ passes = <<>>
    /\ appended = <<>>
    /\ wrote = <<>>
    /\ flushes = <<>>
    /\ probes = <<>>
    /\ inspected = <<>>

\* the test's loop: `for arr in data_stream: buffer.append(arr)` inside the
\* with-block, then the exit of the block
NextCount == BacAppend \/ BacExitOk

SpecCount == InitCount /\ [][NextCount]_vars

\* the append loop of predict_buffered_flushes: the number of times the
\* running byte counter, reset at each flush, reaches the threshold, and the
\* bytes left in the counter after the stream
RECURSIVE predict_loop(_, _, _, _)
predict_loop(data_stream, uncompressed_target, flushes_so_far, buffered_bytes) ==
    IF data_stream = <<>>
    THEN [flushes |-> flushes_so_far, buffered_bytes |-> buffered_bytes]
    ELSE IF buffered_bytes + nbytes(Head(data_stream)) >= uncompressed_target
         THEN predict_loop(Tail(data_stream), uncompressed_target, flushes_so_far + 1, 0)
         ELSE predict_loop(Tail(data_stream), uncompressed_target, flushes_so_far,
                           buffered_bytes + nbytes(Head(data_stream)))

\* lines 28-40 of predict_buffered_flushes, the threshold being known: the
\* append loop, and one more chunk if bytes remain buffered at the exit
predict_flushes_from(data_stream, uncompressed_target) ==
    LET l == predict_loop(data_stream, uncompressed_target, 0, 0)
    IN IF l.buffered_bytes > 0 THEN l.flushes + 1 ELSE l.flushes

\* predict_buffered_flushes of the tests, compressed_size being what the probe
\* store reports for the sample of the first array.  Its threshold is
\* int(target_chunk_bytes / ratio), without the chunker's cap at
\* max_buffer_bytes.
predict_buffered_flushes(data_stream, target_chunk_bytes, min_compression_ratio, compressed_size) ==
    IF data_stream = <<>> THEN [err |-> "IndexError", flushes |-> 0]
    ELSE LET first_arr == data_stream[1]
         IN IF rows(first_arr) = 0 THEN [err |-> "ZeroDivisionError", flushes |-> 0]
            ELSE LET original_size == nbytes(ProbeSample(first_arr))
                 IN IF original_size = 0 THEN [err |-> "ZeroDivisionError", flushes |-> 0]
                    ELSE LET ratio == MaxRatio(min_compression_ratio,
                                               <<compressed_size, original_size>>)
                             uncompressed_target == IntDivRatio(target_chunk_bytes, ratio)
                         IN [err |-> None,
                             flushes |-> predict_flushes_from(data_stream, uncompressed_target)]

\* C29: after a scope that exited without error the file holds as many
\* chunks as the running byte counter reached the calibrated threshold,
\* plus one if bytes remained buffered at the exit.
C29_ChunkCountPredicted ==
    (phase = "exited_ok" /\ bac.compression_ratio # None) =>
        Len(store) = predict_flushes_from(appended, bac.uncompressed_chunk_size)

-----------------------------------------------------------------------------
(* Failures of the engine during a flush (scenario SpecProbe) *)

\* the chunks a flush reports as written are in the store, at their indices
\* and with their names' element types
ChunksPersisted(f, st) ==
    \A i \in 1..Len(f.chunks) :
        /\ f.chunks[i].index < Len(st)
        /\ st[f.chunks[i].index + 1].index = f.chunks[i].index
        /\ st[f.chunks[i].index + 1].dtype = NameDtype(f.chunks[i].name)

\* a step in which a flush fails after it wrote chunks: the store grows by
\* exactly those chunks and the error reaches the caller
PartialFlushKept ==
    (Len(flushes') > Len(flushes) /\ ~flushes'[Len(flushes')].ok) =>
        LET f == flushes'[Len(flushes')]
        IN /\ IsEngineError(result'.err)
           /\ Len(store') = Len(store) + Len(f.chunks)
           /\ SubSeq(store', 1, Len(store)) = store
           /\ ChunksPersisted(f, store')

\* C31: when a GroupedWriter flush fails at one name after the chunks of
\* earlier names were written, those chunks stay in the store, then and ever
\* after, and the caller gets the error.
C31_PartialFlushPersists ==
    /\ [](\A i \in 1..Len(flushes) : ChunksPersisted(flushes[i], store))
    /\ [][PartialFlushKept]_vars

\* a flush wrote the chunk of the first name and failed at the second
C31_Witness ==
    /\ Len(flushes) = 1
    /\ ~flushes[1].ok
    /\ KeyOrder(flushes[1].chunks) = <<"p">>
    /\ Len(store) = 1
    /\ IsEngineError(result.err)

\* a step in which the engine rejects a write: what was buffered when the
\* flush began (the array of the append included) is buffered afterwards,
\* and the byte counter is what it was
FlushFailureKeepsBuffer ==
    (result'.op \in {"append", "flush"} /\ IsEngineError(result'.err)) =>
        /\ bac # NoObject =>
              IF appended' = appended
              THEN /\ bac'.buffer = bac.buffer
                   /\ bac'.buffered_bytes = bac.buffered_bytes
              ELSE /\ bac'.buffer = Append(bac.buffer, appended'[Len(appended')])
                   /\ bac'.buffered_bytes =
                         bac.buffered_bytes + nbytes(appended'[Len(appended')])
        /\ gw # NoObject =>
              IF appended' = appended
              THEN /\ gw'.buffers = gw.buffers
                   /\ gw'.total_buffered_bytes = gw.total_buffered_bytes
              ELSE /\ gw'.buffers = buffers_extend(gw.buffers, appended'[Len(appended')])
                   /\ gw'.total_buffered_bytes =
                         gw.total_buffered_bytes + GroupBytes(appended'[Len(appended')])

\* C35: when the engine write fails during BufferedAutoChunker.flush or
\* GroupedWriter.flush, the buffered fragments and the byte counter are as
\* they were before the flush: nothing buffered is cleared or dropped.
C35_FailedFlushKeepsBuffer == [][FlushFailureKeepsBuffer]_vars

\* an append whose probe succeeded and whose flush the engine rejected: the
\* array is still buffered and nothing is in the store
C35_Witness ==
    /\ bac # NoObject
    /\ result.op = "append"
    /\ IsEngineError(result.err)
    /\ Len(probes) = 1
    /\ probes[1].err = None
    /\ Len(bac.buffer) = 1
    /\ bac.buffered_bytes = 8
    /\ store = <<>>

\* C36: whenever GroupedWriter.flush has returned successfully, the number
\* of chunks the writer has put into the store is a multiple of the number
\* of names of its key set, also when an earlier flush failed part-way and
\* flush was called again.
C36_ChunksMultipleOfNames ==
    (gw # NoObject /\ result.op = "flush" /\ result.err = None
        /\ gw.array_names # NoNames) =>
        Len(store) % Cardinality(gw.array_names) = 0

-----------------------------------------------------------------------------
(* The byte counters of the stream writers (scenario SpecScope) *)

\* the byte sizes of a list of arrays, summed
RECURSIVE ListBytes(_)
ListBytes(arrs) == IF arrs = <<>> THEN 0 ELSE nbytes(Head(arrs)) + ListBytes(Tail(arrs))

\* the byte sizes of all arrays in the per-name buffers, summed
RECURSIVE BuffersBytes(_)
BuffersBytes(bufs) ==
    IF bufs = <<>> THEN 0 ELSE ListBytes(Head(bufs).list) + BuffersBytes(Tail(bufs))

\* C38: when append has returned normally on a writer whose threshold is
\* positive, the byte counter is below the threshold and is the sum of the
\* byte sizes of the arrays still buffered.
C38_CounterBelowThreshold ==
    (result.op = "append" /\ result.err = None) =>
        /\ (bac # NoObject /\ bac.uncompressed_chunk_size > 0) =>
              /\ bac.buffered_bytes < bac.uncompressed_chunk_size
              /\ bac.buffered_bytes = ListBytes(bac.buffer)
        /\ (gw # NoObject /\ gw.uncompressed_chunk_size > 0) =>
              /\ gw.total_buffered_bytes < gw.uncompressed_chunk_size
              /\ gw.total_buffered_bytes = BuffersBytes(gw.buffers)

\* an append that returned after a flush earlier in the run, with two arrays
\* buffered below the threshold
C38_Witness ==
    /\ bac # NoObject
    /\ result.op = "append"
    /\ result.err = None
    /\ Len(store) = 1
    /\ Len(bac.buffer) = 2
    /\ bac.buffered_bytes > 0
    /\ bac.buffered_bytes < bac.uncompressed_chunk_size

-----------------------------------------------------------------------------
(* The rows of the chunks of a GroupedWriter flush (scenario SpecGrouped) *)

\* the rows of a name's chunks written by the successful flushes of fs
RECURSIVE RowsFlushed(_, _, _)
RowsFlushed(fs, st, name) ==
    IF fs = <<>> THEN 0
    ELSE LET f == Head(fs)
             own == {i \in 1..Len(f.chunks) : f.chunks[i].name = name}
         IN (IF f.ok /\ own # {}
             THEN Len(st[f.chunks[CHOOSE i \in own : TRUE].index + 1].data)
             ELSE 0) + RowsFlushed(Tail(fs), st, name)

\* the rows appended under a name, over the appends that were accepted
RowsAppended(apps, name) ==
    IF \A k \in 1..Len(apps) : name \in DictKeys(apps[k])
    THEN Len(AppendedData(apps, name))
    ELSE 0

\* a step in which a flush succeeds: every name of the key set gets one
\* chunk, and its rows are the rows appended under the name since the
\* previous successful flush
FlushWritesRowsSince ==
    (Len(flushes') > Len(flushes) /\ flushes'[Len(flushes')].ok) =>
        LET f == flushes'[Len(flushes')]
        IN /\ DictKeys(f.chunks) = gw'.array_names
           /\ \A i \in 1..Len(f.chunks) :
                 Len(store'[f.chunks[i].index + 1].data) =
                    RowsAppended(appended', f.chunks[i].name)
                       - RowsFlushed(flushes, store, f.chunks[i].name)

\* the chunks of one flush have one row count
SameRows(f, st) ==
    \A i, j \in 1..Len(f.chunks) :
        Len(st[f.chunks[i].index + 1].data) = Len(st[f.chunks[j].index + 1].data)

\* C39: in every group of chunks written by one GroupedWriter flush the
\* chunks of all names have the same number of rows, the number of rows
\* appended per name since the previous successful flush.
C39_GroupRowsAligned ==
    /\ [](\A k \in 1..Len(flushes) : flushes[k].ok => SameRows(flushes[k], store))
    /\ [][FlushWritesRowsSince]_vars

\* a second flush whose chunks hold the three rows of two appends made after
\* the first flush
C39_Witness ==
    /\ Len(flushes) = 2
    /\ flushes[1].ok /\ flushes[2].ok
    /\ Len(flushes[2].chunks) = 2
    /\ Len(appended) = 3
    /\ Len(store) = 4
    /\ Len(store[3].data) = 3
    /\ Len(store[4].data) = 3

-----------------------------------------------------------------------------
(* Rejected appends of a GroupedWriter (scenario SpecGrouped) *)

\* a step in which append raised the key-set or the row-count error
AppendRejected ==
    /\ result'.op = "append"
    /\ result'.err \in {"ValueError:keys", "ValueError:rows"}

RejectedAppendKeepsWriter == AppendRejected => (gw' = gw /\ probes' = probes)

\* C40: an append rejected with the key-set or the row-count error leaves the
\* writer as it was (key set, threshold, buffers, byte counter) and opens no
\* probe store, on the first call as on later calls.
C40_RejectedAppendKeepsWriter == [][RejectedAppendKeepsWriter]_vars

\* the same for rejected appends after the key set was recorded
RejectedLaterAppendKeepsWriter ==
    (AppendRejected /\ gw.array_names # NoNames) => (gw' = gw /\ probes' = probes)

LaterRejectedAppendKeepsWriter == [][RejectedLaterAppendKeepsWriter]_vars

====
